---- MODULE Spec2Model ----
(***************************************************************************)
(* Theme lifecycle of nilorg/template: the theme registry                  *)
(* (DefaultThemeManager, theme.go) and the engine facade with its file     *)
(* watch classification (Engine, engine.go).                               *)
(*                                                                         *)
(* Nine specifications share the variables: Spec (the registry called      *)
(* directly), SpecEngine (the engine from one caller), SpecWatching (the   *)
(* engine with the goroutine of Watching and Close), SpecRace (the         *)
(* registry called from several goroutines, method steps interleaved),     *)
(* SpecValidate (ThemeDiscovery.ValidateTheme on one theme directory),     *)
(* SpecDiscovery (repeated discovery), SpecDefaults (the default theme),   *)
(* SpecReload (the engine's reloads) and SpecLoops (the goroutines of      *)
(* Watching, RestartWatching and the steps of Close).                      *)
(*                                                                         *)
(* Strings are Go strings; paths are clean slash-separated strings.  A     *)
(* Render (map[string]*template.Template) is a record: isNil tells the nil *)
(* map from an allocated one, tmpls is the set of its entries.  An entry   *)
(* carries its key, the directory it was compiled from and whether its     *)
(* *template.Template is non-nil.                                          *)
(***************************************************************************)
EXTENDS Integers, Sequences, FiniteSets, TLC

VARIABLES tm, en, last, onlySwitches, th, disk

vars == <<tm, en, last, onlySwitches, th, disk>>

(***************************************************************************)
(* Bounds                                                                  *)
(***************************************************************************)
\* number of candidate child directories of the template root
NumDirs == 2

\* candidate directory names in os.ReadDir order (sorted by file name)
DirPool == <<"a", "ab", "b">>

DirNames == SubSeq(DirPool, 1, IF NumDirs <= Len(DirPool) THEN NumDirs ELSE Len(DirPool))

Dirs == {DirNames[i] : i \in 1..Len(DirNames)}

\* the directory names of the model in the order of os.ReadDir (sorted by file name)
NameOrder == DirPool \o <<"dark", "default">>

\* names passed to the operations: registered names, "default", "dark", "" and
\* an unknown one
ArgNames == Dirs \cup {"default", "dark", "", "ghost"}

(***************************************************************************)
(* Strings and paths                                                       *)
(***************************************************************************)
\* strings.HasPrefix
HasPrefix(s, prefix) == Len(prefix) <= Len(s) /\ SubSeq(s, 1, Len(prefix)) = prefix

\* strings.Contains
Contains(s, substr) == \E i \in 1..(Len(s) - Len(substr) + 1) : SubSeq(s, i, i + Len(substr) - 1) = substr

\* filepath.Join of a directory and one element
Join(dir, elem) == IF dir = "" THEN elem ELSE dir \o "/" \o elem

\* the template root given to NewEngine / NewDefaultThemeManager (for the
\* embedded file system, the sub-directory)
TemplatesDir == "t"

\* the working directory of the process
Cwd == "/w"

\* filepath.Abs; the paths of the model are clean, so Clean leaves them as they are
Abs(path) == IF HasPrefix(path, "/") THEN path ELSE Join(Cwd, path)

\* the path lies in the directory or below it
Under(path, dir) == Abs(path) = Abs(dir) \/ HasPrefix(Abs(path), Abs(dir) \o "/")

\* filepath.Ext: the suffix from the last dot of the last element on
Ext(path) ==
  LET dots == {i \in 1..Len(path) :
                 /\ SubSeq(path, i, i) = "."
                 /\ \A j \in (i + 1)..Len(path) : SubSeq(path, j, j) \notin {".", "/"}}
  IN IF dots = {} THEN "" ELSE SubSeq(path, CHOOSE i \in dots : TRUE, Len(path))

(***************************************************************************)
(* Render (model.go)                                                       *)
(***************************************************************************)
NilRender == [isNil |-> TRUE, tmpls |-> {}]

NewRender == [isNil |-> FALSE, tmpls |-> {}]

\* len(renderMap)
RenderLen(r) == Cardinality(r.tmpls)

PageKey == "layout.tmpl:pages/index"

SingleKey == "singles/about.tmpl"

ErrorKey == "error/404.tmpl"

PartialKey == "partials/nav.tmpl"

Tmpl(key, dir, ok) == [key |-> key, dir |-> dir, ok |-> ok]

\* What a LoadTemplateFunc / LoadEmbedFSTemplateFunc can return for a
\* directory: a nil map, an empty map, or a map of templates compiled from
\* that directory (one of them with only a nil *template.Template).
LoadOutcomes(dir) ==
  { NilRender,
    NewRender,
    [isNil |-> FALSE, tmpls |-> {Tmpl(PartialKey, dir, TRUE)}],
    [isNil |-> FALSE, tmpls |-> {Tmpl(PartialKey, dir, FALSE)}],
    [isNil |-> FALSE, tmpls |-> {Tmpl(PageKey, dir, TRUE), Tmpl(SingleKey, dir, TRUE), Tmpl(ErrorKey, dir, TRUE)}] }

(***************************************************************************)
(* Errors                                                                  *)
(***************************************************************************)
\* a nil error
Nil == [Type |-> "nil", Theme |-> "", Cause |-> "nil"]

\* &ThemeError{Type, Theme, Message, Cause}; Cause is the type of the wrapped error
ThemeError(type, theme, cause) == [Type |-> type, Theme |-> theme, Cause |-> cause.Type]

\* fmt.Errorf(...)
PlainError == [Type |-> "error", Theme |-> "", Cause |-> "nil"]

\* what an operation leaves and returns: the manager, the error, and whether
\* the load function was invoked
Ret(m, err, ran) == [tm |-> m, err |-> err, ran |-> ran]

(***************************************************************************)
(* The directory tree                                                      *)
(***************************************************************************)
\* root: "missing" (unreadable), "invalid" (ValidateTheme fails), "valid",
\*       "badmeta" (ValidateTheme passes, theme.json does not unmarshal
\*       into ThemeMetadata)
RootStatus == {"missing", "invalid", "valid", "badmeta"}

\* child directory: "invalid" (absent, or ValidateTheme fails), "valid", "badmeta"
DirStatus == {"invalid", "valid", "badmeta"}

\* the trees DiscoverThemes can find; an unreadable root has no children
FsStates ==
  [root : RootStatus \ {"missing"}, kids : [Dirs -> DirStatus]]
    \cup {[root |-> "missing", kids |-> [d \in Dirs |-> "invalid"]]}

\* ThemeDiscovery.ValidateTheme(path) == nil
ValidateThemeOK(status) == status \in {"valid", "badmeta"}

\* ThemeDiscovery.LoadThemeMetadata(path) returns no error
LoadThemeMetadataOK(status) == status # "badmeta"

\* the root whose only children are the valid theme directories dark/ and default/
ScenarioTree == [root |-> "invalid", kids |-> [d \in {"dark", "default"} |-> "valid"]]

\* the trees DiscoverThemes is called on
Trees == FsStates \cup {ScenarioTree}

\* the entries in descending order of file name
ReadDir_Reversed(f) ==
  LET IsEntry(n) == n \in DOMAIN f.kids
      sorted == SelectSeq(NameOrder, IsEntry)
  IN [i \in 1..Len(sorted) |-> sorted[Len(sorted) + 1 - i]]

\* os.ReadDir(baseDir): the child directories of f, sorted by file name
ReadDir(f) == LET IsEntry(n) == n \in DOMAIN f.kids IN SelectSeq(NameOrder, IsEntry)

\* ThemeDiscovery.hasThemeSubdirectories
hasThemeSubdirectories(f) == \E d \in DOMAIN f.kids : ValidateThemeOK(f.kids[d])

\* ThemeDiscovery.hasLegacyStructure: layouts/, pages/, singles/ and errors/
\* exist under the root; a root that passes ValidateTheme has them
hasLegacyStructure(f) == ValidateThemeOK(f.root)

\* detectModeFileSystem preferring the legacy layout of the root
detectModeFileSystem_LegacyFirst(hasLegacy, hasThemeSubdirs) ==
  IF hasLegacy THEN "ModeLegacy"
  ELSE IF hasThemeSubdirs THEN "ModeMultiTheme"
  ELSE "ModeLegacy"

\* ThemeDiscovery.detectModeFileSystem / detectModeEmbedFS once the root was read
detectModeFileSystem(hasLegacy, hasThemeSubdirs) ==
  IF hasLegacy /\ ~hasThemeSubdirs THEN "ModeLegacy"
  ELSE IF hasThemeSubdirs THEN "ModeMultiTheme"
  ELSE "ModeLegacy"

\* ThemeDiscovery.DetectMode on a readable root
DetectMode(f) == detectModeFileSystem(hasLegacyStructure(f), hasThemeSubdirectories(f))

(***************************************************************************)
(* DefaultThemeManager                                                     *)
(***************************************************************************)
NoThemes == [n \in {} |-> [Name |-> "", Path |-> "", IsDefault |-> FALSE, IsEmbedded |-> FALSE]]

\* tm.themes[name] = theme
PutTheme(themes, name, theme) == [n \in (DOMAIN themes) \cup {name} |-> IF n = name THEN theme ELSE themes[n]]

\* NewDefaultThemeManager / NewDefaultThemeManagerWithEmbedFS
NewDefaultThemeManager(embedded, loadFunc) ==
  [themes |-> NoThemes, currentTheme |-> "", defaultTheme |-> "",
   render |-> NewRender, embedFS |-> embedded, loadFunc |-> loadFunc]

\* DefaultThemeManager.ThemeExists
ThemeExists(m, name) == name \in DOMAIN m.themes

\* DefaultThemeManager.GetAvailableThemes, as a set
GetAvailableThemes(m) == DOMAIN m.themes

\* DefaultThemeManager.GetCurrentTheme
GetCurrentTheme(m) == m.currentTheme

\* DefaultThemeManager.GetRender
GetRender(m) == m.render

\* DefaultThemeManager.clearRender
clearRender(m) == [m EXCEPT !.render = NewRender]

\* loadThemeTemplates adding the loaded templates to the render it already holds
loadThemeTemplates_Merge(m, theme, out) ==
  IF ~m.loadFunc THEN Ret(m, PlainError, FALSE)
  ELSE LET m2 == [m EXCEPT !.render = [isNil |-> out.isNil, tmpls |-> m.render.tmpls \cup out.tmpls]] IN
       IF m2.render.isNil THEN Ret(m2, PlainError, TRUE)
       ELSE IF RenderLen(m2.render) = 0 THEN Ret(m2, PlainError, TRUE)
       ELSE Ret(m2, Nil, TRUE)

\* DefaultThemeManager.loadThemeTemplates; out is what the load function returns
loadThemeTemplates(m, theme, out) ==
  LET m1 == clearRender(m) IN
  IF ~m1.loadFunc THEN Ret(m1, PlainError, FALSE)
  ELSE LET m2 == [m1 EXCEPT !.render = out] IN
       IF m2.render.isNil THEN Ret(m2, PlainError, TRUE)
       ELSE IF RenderLen(m2.render) = 0 THEN Ret(m2, PlainError, TRUE)
       ELSE Ret(m2, Nil, TRUE)

\* LoadTheme that also makes the loaded theme the current one
LoadTheme_SetsCurrent(m, name, out) ==
  IF ~ThemeExists(m, name) THEN Ret(m, ThemeError("ThemeNotFound", name, Nil), FALSE)
  ELSE LET r == loadThemeTemplates(m, m.themes[name], out) IN
       IF r.err # Nil THEN Ret(r.tm, ThemeError("ThemeLoadFailed", name, r.err), r.ran)
       ELSE Ret([r.tm EXCEPT !.currentTheme = name], Nil, r.ran)

\* DefaultThemeManager.LoadTheme
LoadTheme(m, name, out) ==
  IF ~ThemeExists(m, name) THEN Ret(m, ThemeError("ThemeNotFound", name, Nil), FALSE)
  ELSE LET r == loadThemeTemplates(m, m.themes[name], out) IN
       IF r.err # Nil THEN Ret(r.tm, ThemeError("ThemeLoadFailed", name, r.err), r.ran)
       ELSE Ret(r.tm, Nil, r.ran)

\* DefaultThemeManager.validateRenderTemplates
validateRenderTemplates(m) ==
  IF m.render.isNil THEN PlainError
  ELSE IF RenderLen(m.render) = 0 THEN PlainError
  ELSE IF ~(\E t \in m.render.tmpls : t.ok) THEN PlainError
  ELSE Nil

\* DefaultThemeManager.ValidateRenderIntegrity
ValidateRenderIntegrity(m) ==
  IF m.render.isNil THEN PlainError
  ELSE IF RenderLen(m.render) = 0 THEN PlainError
  ELSE IF \E t \in m.render.tmpls : ~t.ok THEN PlainError
  ELSE IF ~(\E t \in m.render.tmpls : \/ Contains(t.key, ":pages/")
                                      \/ HasPrefix(t.key, "singles/")
                                      \/ HasPrefix(t.key, "error/")) THEN PlainError
  ELSE Nil

\* SwitchTheme committing the name before the load and never rolling back
SwitchTheme_NoRollback(m, name, out) ==
  IF ~ThemeExists(m, name) THEN Ret(m, ThemeError("ThemeNotFound", name, Nil), FALSE)
  ELSE IF m.currentTheme = name THEN Ret(m, Nil, FALSE)
  ELSE LET r == LoadTheme([m EXCEPT !.currentTheme = name], name, out) IN
       IF r.err # Nil THEN Ret(r.tm, ThemeError("ThemeSwitchFailed", name, r.err), r.ran)
       ELSE IF validateRenderTemplates(r.tm) # Nil
            THEN Ret(r.tm, ThemeError("ThemeSwitchFailed", name, validateRenderTemplates(r.tm)), r.ran)
       ELSE Ret(r.tm, Nil, r.ran)

\* SwitchTheme restoring the theme name but not the render on a failed load
SwitchTheme_KeepsLoadedRender(m, name, out) ==
  IF ~ThemeExists(m, name) THEN Ret(m, ThemeError("ThemeNotFound", name, Nil), FALSE)
  ELSE IF m.currentTheme = name THEN Ret(m, Nil, FALSE)
  ELSE LET r == LoadTheme(m, name, out) IN
       IF r.err # Nil THEN Ret(r.tm, ThemeError("ThemeSwitchFailed", name, r.err), r.ran)
       ELSE IF validateRenderTemplates(r.tm) # Nil
            THEN Ret([r.tm EXCEPT !.render = m.render],
                     ThemeError("ThemeSwitchFailed", name, validateRenderTemplates(r.tm)), r.ran)
       ELSE Ret([r.tm EXCEPT !.currentTheme = name], Nil, r.ran)

\* SwitchTheme testing "already current" before "exists"
SwitchTheme_SameFirst(m, name, out) ==
  IF m.currentTheme = name THEN Ret(m, Nil, FALSE)
  ELSE IF ~ThemeExists(m, name) THEN Ret(m, ThemeError("ThemeNotFound", name, Nil), FALSE)
  ELSE LET r == LoadTheme(m, name, out)
           rolledBack == [r.tm EXCEPT !.currentTheme = m.currentTheme, !.render = m.render]
       IN IF r.err # Nil THEN Ret(rolledBack, ThemeError("ThemeSwitchFailed", name, r.err), r.ran)
          ELSE IF validateRenderTemplates(r.tm) # Nil
               THEN Ret(rolledBack, ThemeError("ThemeSwitchFailed", name, validateRenderTemplates(r.tm)), r.ran)
          ELSE Ret([r.tm EXCEPT !.currentTheme = name], Nil, r.ran)

\* SwitchTheme without the "already current" early return
SwitchTheme_NoSameCheck(m, name, out) ==
  IF ~ThemeExists(m, name) THEN Ret(m, ThemeError("ThemeNotFound", name, Nil), FALSE)
  ELSE LET r == LoadTheme(m, name, out)
           rolledBack == [r.tm EXCEPT !.currentTheme = m.currentTheme, !.render = m.render]
       IN IF r.err # Nil THEN Ret(rolledBack, ThemeError("ThemeSwitchFailed", name, r.err), r.ran)
          ELSE IF validateRenderTemplates(r.tm) # Nil
               THEN Ret(rolledBack, ThemeError("ThemeSwitchFailed", name, validateRenderTemplates(r.tm)), r.ran)
          ELSE Ret([r.tm EXCEPT !.currentTheme = name], Nil, r.ran)

\* SwitchTheme without the final commit of the name
SwitchTheme_NoCommit(m, name, out) ==
  IF ~ThemeExists(m, name) THEN Ret(m, ThemeError("ThemeNotFound", name, Nil), FALSE)
  ELSE IF m.currentTheme = name THEN Ret(m, Nil, FALSE)
  ELSE LET r == LoadTheme(m, name, out)
           rolledBack == [r.tm EXCEPT !.currentTheme = m.currentTheme, !.render = m.render]
       IN IF r.err # Nil THEN Ret(rolledBack, ThemeError("ThemeSwitchFailed", name, r.err), r.ran)
          ELSE IF validateRenderTemplates(r.tm) # Nil
               THEN Ret(rolledBack, ThemeError("ThemeSwitchFailed", name, validateRenderTemplates(r.tm)), r.ran)
          ELSE Ret(r.tm, Nil, r.ran)

\* DefaultThemeManager.SwitchTheme
SwitchTheme(m, name, out) ==
  IF ~ThemeExists(m, name) THEN Ret(m, ThemeError("ThemeNotFound", name, Nil), FALSE)
  ELSE IF m.currentTheme = name THEN Ret(m, Nil, FALSE)
  ELSE LET previousTheme == m.currentTheme
           previousRender == m.render
           r == LoadTheme(m, name, out)
           rolledBack == [r.tm EXCEPT !.currentTheme = previousTheme, !.render = previousRender]
       IN IF r.err # Nil THEN Ret(rolledBack, ThemeError("ThemeSwitchFailed", name, r.err), r.ran)
          ELSE IF r.tm.render.isNil THEN Ret(rolledBack, ThemeError("ThemeSwitchFailed", name, Nil), r.ran)
          ELSE IF validateRenderTemplates(r.tm) # Nil
               THEN Ret(rolledBack, ThemeError("ThemeSwitchFailed", name, validateRenderTemplates(r.tm)), r.ran)
          ELSE Ret([r.tm EXCEPT !.currentTheme = name], Nil, r.ran)

\* DefaultThemeManager.SwitchToDefaultTheme
SwitchToDefaultTheme(m, out) ==
  IF m.defaultTheme = "" THEN Ret(m, ThemeError("ThemeNotFound", "", Nil), FALSE)
  ELSE SwitchTheme(m, m.defaultTheme, out)

\* ReloadCurrentTheme restoring the previous render when the load fails
ReloadCurrentTheme_Rollback(m, out) ==
  IF m.currentTheme = "" THEN Ret(m, ThemeError("ThemeLoadFailed", "", Nil), FALSE)
  ELSE LET r == LoadTheme(m, m.currentTheme, out) IN
       IF r.err # Nil THEN Ret([r.tm EXCEPT !.render = m.render], r.err, r.ran) ELSE r

\* DefaultThemeManager.ReloadCurrentTheme
ReloadCurrentTheme(m, out) ==
  IF m.currentTheme = "" THEN Ret(m, ThemeError("ThemeLoadFailed", "", Nil), FALSE)
  ELSE LoadTheme(m, m.currentTheme, out)

\* PreloadTheme that keeps the render it loaded
PreloadTheme_Installs(m, name, out) ==
  IF ~ThemeExists(m, name) THEN Ret(m, ThemeError("ThemeNotFound", name, Nil), FALSE)
  ELSE IF ~m.loadFunc THEN Ret(m, PlainError, FALSE)
  ELSE IF out.isNil THEN Ret(m, ThemeError("ThemeLoadFailed", name, Nil), TRUE)
  ELSE IF RenderLen(out) = 0 THEN Ret(m, ThemeError("ThemeLoadFailed", name, Nil), TRUE)
  ELSE Ret([m EXCEPT !.render = out], Nil, TRUE)

\* DefaultThemeManager.PreloadTheme
PreloadTheme(m, name, out) ==
  IF ~ThemeExists(m, name) THEN Ret(m, ThemeError("ThemeNotFound", name, Nil), FALSE)
  ELSE IF ~m.loadFunc THEN Ret(m, PlainError, FALSE)
  ELSE IF out.isNil THEN Ret(m, ThemeError("ThemeLoadFailed", name, Nil), TRUE)
  ELSE IF RenderLen(out) = 0 THEN Ret(m, ThemeError("ThemeLoadFailed", name, Nil), TRUE)
  ELSE Ret(m, Nil, TRUE)

\* DefaultThemeManager.GetDefaultTheme
GetDefaultTheme(m) == m.defaultTheme

\* SetDefaultTheme that flags the new default without clearing the other flags
SetDefaultTheme_KeepsOldFlag(m, name) ==
  IF ~ThemeExists(m, name) THEN Ret(m, ThemeError("ThemeNotFound", name, Nil), FALSE)
  ELSE Ret([m EXCEPT !.defaultTheme = name,
                     !.themes = [n \in DOMAIN m.themes |->
                                   [m.themes[n] EXCEPT !.IsDefault = (m.themes[n].IsDefault \/ n = name)]]],
           Nil, FALSE)

\* SetDefaultTheme that registers a name it does not know
SetDefaultTheme_Registers(m, name) ==
  IF ~ThemeExists(m, name)
  THEN Ret([m EXCEPT !.defaultTheme = name,
                     !.themes = PutTheme(m.themes, name, [Name |-> name, Path |-> Join(TemplatesDir, name),
                                                          IsDefault |-> TRUE, IsEmbedded |-> m.embedFS])],
           Nil, FALSE)
  ELSE Ret([m EXCEPT !.defaultTheme = name,
                     !.themes = [n \in DOMAIN m.themes |-> [m.themes[n] EXCEPT !.IsDefault = (n = name)]]],
           Nil, FALSE)

\* DefaultThemeManager.SetDefaultTheme
SetDefaultTheme(m, name) ==
  IF ~ThemeExists(m, name) THEN Ret(m, ThemeError("ThemeNotFound", name, Nil), FALSE)
  ELSE Ret([m EXCEPT !.defaultTheme = name,
                     !.themes = [n \in DOMAIN m.themes |-> [m.themes[n] EXCEPT !.IsDefault = (n = name)]]],
           Nil, FALSE)

\* discoverLegacyTheme that registers the theme without making it current
discoverLegacyTheme_KeepsCurrent(m, f, out) ==
  IF ~ValidateThemeOK(f.root)
  THEN Ret(m, ThemeError("ThemeInvalid", "default", ThemeError("ThemeInvalid", "", Nil)), FALSE)
  ELSE IF ~LoadThemeMetadataOK(f.root) THEN Ret(m, ThemeError("ThemeConfigInvalid", TemplatesDir, PlainError), FALSE)
  ELSE LET theme == [Name |-> "default", Path |-> TemplatesDir, IsDefault |-> TRUE, IsEmbedded |-> m.embedFS]
           m1 == [m EXCEPT !.themes = PutTheme(m.themes, "default", theme),
                           !.defaultTheme = "default"]
           r == LoadTheme(m1, "default", out)
       IN IF r.err # Nil THEN Ret(r.tm, ThemeError("ThemeLoadFailed", "default", r.err), r.ran)
          ELSE Ret(r.tm, Nil, r.ran)

\* DefaultThemeManager.discoverLegacyTheme
discoverLegacyTheme(m, f, out) ==
  IF ~ValidateThemeOK(f.root)
  THEN Ret(m, ThemeError("ThemeInvalid", "default", ThemeError("ThemeInvalid", "", Nil)), FALSE)
  ELSE IF ~LoadThemeMetadataOK(f.root) THEN Ret(m, ThemeError("ThemeConfigInvalid", TemplatesDir, PlainError), FALSE)
  ELSE LET theme == [Name |-> "default", Path |-> TemplatesDir, IsDefault |-> TRUE, IsEmbedded |-> m.embedFS]
           m1 == [m EXCEPT !.themes = PutTheme(m.themes, "default", theme),
                           !.currentTheme = "default",
                           !.defaultTheme = "default"]
           r == LoadTheme(m1, "default", out)
       IN IF r.err # Nil THEN Ret(r.tm, ThemeError("ThemeLoadFailed", "default", r.err), r.ran)
          ELSE Ret(r.tm, Nil, r.ran)

\* the loop of DefaultThemeManager.discoverMultipleThemes from entry i on
RECURSIVE discoverLoop(_, _, _, _, _, _)
discoverLoop(m, f, out, i, foundThemes, ran) ==
  IF i > Len(ReadDir(f))
  THEN IF foundThemes = 0 THEN Ret(m, ThemeError("ThemeNotFound", "", Nil), ran) ELSE Ret(m, Nil, ran)
  ELSE LET themeName == ReadDir(f)[i]
           themePath == Join(TemplatesDir, themeName)
       IN IF ~ValidateThemeOK(f.kids[themeName]) THEN discoverLoop(m, f, out, i + 1, foundThemes, ran)
          ELSE IF ~LoadThemeMetadataOK(f.kids[themeName])
               THEN Ret(m, ThemeError("ThemeConfigInvalid", themeName, PlainError), ran)
          ELSE LET theme == [Name |-> themeName, Path |-> themePath,
                             IsDefault |-> (foundThemes = 0), IsEmbedded |-> m.embedFS]
                   m1 == [m EXCEPT !.themes = PutTheme(m.themes, themeName, theme)]
               IN IF foundThemes + 1 = 1
                  THEN LET m2 == [m1 EXCEPT !.defaultTheme = themeName, !.currentTheme = themeName]
                           r == LoadTheme(m2, themeName, out)
                       IN IF r.err # Nil THEN Ret(r.tm, ThemeError("ThemeLoadFailed", themeName, r.err), r.ran)
                          ELSE discoverLoop(r.tm, f, out, i + 1, foundThemes + 1, r.ran)
                  ELSE discoverLoop(m1, f, out, i + 1, foundThemes + 1, ran)

\* discoverMultipleThemes that flags every registered theme as the default
discoverMultipleThemes_AllDefault(m, f, out) ==
  LET r == discoverLoop(m, f, out, 1, 0, FALSE) IN
  Ret([r.tm EXCEPT !.themes = [n \in DOMAIN r.tm.themes |-> [r.tm.themes[n] EXCEPT !.IsDefault = TRUE]]],
      r.err, r.ran)

\* DefaultThemeManager.discoverMultipleThemes
discoverMultipleThemes(m, f, out) == discoverLoop(m, f, out, 1, 0, FALSE)

\* DefaultThemeManager.DiscoverThemes
DiscoverThemes(m, f, out) ==
  IF f.root = "missing" THEN Ret(m, ThemeError("ThemeLoadFailed", "", PlainError), FALSE)
  ELSE LET m1 == [m EXCEPT !.themes = NoThemes] IN
       IF DetectMode(f) = "ModeLegacy" THEN discoverLegacyTheme(m1, f, out)
       ELSE discoverMultipleThemes(m1, f, out)

\* the directory the load function is given by an operation on theme `name`
LoadDir(m, name) == IF ThemeExists(m, name) THEN m.themes[name].Path ELSE TemplatesDir

\* the directory DiscoverThemes loads first
FirstDir(f) ==
  IF DetectMode(f) = "ModeLegacy" THEN TemplatesDir
  ELSE Join(TemplatesDir, ReadDir(f)[CHOOSE i \in 1..Len(ReadDir(f)) :
                                       /\ ValidateThemeOK(f.kids[ReadDir(f)[i]])
                                       /\ \A j \in 1..(i - 1) : ~ValidateThemeOK(f.kids[ReadDir(f)[j]])])

(***************************************************************************)
(* The registry used directly (NewDefaultThemeManager and its methods)     *)
(***************************************************************************)
NoEngine == [made |-> FALSE]

\* no goroutine is inside a method of the registry
NoThreads == << >>

\* no theme directory is under validation
NoDisk == [path |-> ""]

NoCall == [op |-> "none", type |-> "nil", cause |-> "nil", ran |-> FALSE, res |-> FALSE]

\* the record of the call that just returned: the operation, the type of the
\* returned error and of its cause, whether the load function was invoked
\* (by Engine.SwitchTheme: in the registry's SwitchTheme), and the result of a
\* boolean query (for Engine.SwitchTheme: updateWatcherForTheme returned an
\* error)
Call(op, r) == [op |-> op, type |-> r.err.Type, cause |-> r.err.Cause, ran |-> r.ran, res |-> FALSE]

\* onlySwitches: the last DiscoverThemes succeeded and only SwitchTheme calls
\* were made since
Init ==
  /\ \E loadFunc \in BOOLEAN : tm = NewDefaultThemeManager(FALSE, loadFunc)
  /\ en = NoEngine
  /\ last = NoCall
  /\ onlySwitches = FALSE
  /\ th = NoThreads
  /\ disk = NoDisk

\* DiscoverThemes() on the directory tree f found at the time of the call
DoDiscoverThemes ==
  \E f \in Trees : \E out \in LoadOutcomes(FirstDir(f)) :
    LET r == DiscoverThemes(tm, f, out) IN
    /\ tm' = r.tm
    /\ last' = Call("DiscoverThemes", r)
    /\ onlySwitches' = (r.err = Nil)
    /\ UNCHANGED en
    /\ UNCHANGED <<th, disk>>

DoLoadTheme ==
  \E name \in ArgNames : \E out \in LoadOutcomes(LoadDir(tm, name)) :
    LET r == LoadTheme(tm, name, out) IN
    /\ tm' = r.tm
    /\ last' = Call("LoadTheme", r)
    /\ onlySwitches' = FALSE
    /\ UNCHANGED en
    /\ UNCHANGED <<th, disk>>

DoSwitchTheme ==
  \E name \in ArgNames : \E out \in LoadOutcomes(LoadDir(tm, name)) :
    LET r == SwitchTheme(tm, name, out) IN
    /\ tm' = r.tm
    /\ last' = Call("SwitchTheme", r)
    /\ UNCHANGED onlySwitches
    /\ UNCHANGED en
    /\ UNCHANGED <<th, disk>>

DoSwitchToDefaultTheme ==
  \E out \in LoadOutcomes(LoadDir(tm, tm.defaultTheme)) :
    LET r == SwitchToDefaultTheme(tm, out) IN
    /\ tm' = r.tm
    /\ last' = Call("SwitchToDefaultTheme", r)
    /\ onlySwitches' = FALSE
    /\ UNCHANGED en
    /\ UNCHANGED <<th, disk>>

DoReloadCurrentTheme ==
  \E out \in LoadOutcomes(LoadDir(tm, tm.currentTheme)) :
    LET r == ReloadCurrentTheme(tm, out) IN
    /\ tm' = r.tm
    /\ last' = Call("ReloadCurrentTheme", r)
    /\ onlySwitches' = FALSE
    /\ UNCHANGED en
    /\ UNCHANGED <<th, disk>>

DoPreloadTheme ==
  \E name \in ArgNames : \E out \in LoadOutcomes(LoadDir(tm, name)) :
    LET r == PreloadTheme(tm, name, out) IN
    /\ tm' = r.tm
    /\ last' = Call("PreloadTheme", r)
    /\ onlySwitches' = FALSE
    /\ UNCHANGED en
    /\ UNCHANGED <<th, disk>>

DoSetDefaultTheme ==
  \E name \in ArgNames :
    LET r == SetDefaultTheme(tm, name) IN
    /\ tm' = r.tm
    /\ last' = Call("SetDefaultTheme", r)
    /\ onlySwitches' = FALSE
    /\ UNCHANGED en
    /\ UNCHANGED <<th, disk>>

Next ==
  \/ DoDiscoverThemes
  \/ DoLoadTheme
  \/ DoSwitchTheme
  \/ DoSwitchToDefaultTheme
  \/ DoReloadCurrentTheme
  \/ DoPreloadTheme
  \/ DoSetDefaultTheme

Spec == Init /\ [][Next]_vars

(***************************************************************************)
(* Properties of the registry                                              *)
(***************************************************************************)
\* the results the load function can give an operation on theme `name`
OutsFor(name) == LoadOutcomes(LoadDir(tm, name))

\* the render holds at least one template
NonEmpty(r) == ~r.isNil /\ RenderLen(r) > 0

\* the key belongs to the page, single or error category
IsCategoryKey(key) == Contains(key, ":pages/") \/ HasPrefix(key, "singles/") \/ HasPrefix(key, "error/")

\* C1: whenever SwitchTheme(name) returns an error, for any name and any
\* result of the load function, GetCurrentTheme() and the set of
\* GetAvailableThemes() are what they were before the call.
C1_FailedSwitchKeepsThemes ==
  \A name \in ArgNames : \A out \in OutsFor(name) :
    LET r == SwitchTheme(tm, name, out) IN
    r.err # Nil => /\ GetCurrentTheme(r.tm) = GetCurrentTheme(tm)
                   /\ GetAvailableThemes(r.tm) = GetAvailableThemes(tm)

\* a switch to a registered theme has failed and the registry still names a registered theme
C1_Witness ==
  /\ last.op = "SwitchTheme" /\ last.type = "ThemeSwitchFailed"
  /\ ThemeExists(tm, GetCurrentTheme(tm))
  /\ Cardinality(GetAvailableThemes(tm)) >= 2

\* C2: after a successful DiscoverThemes and any sequence of SwitchTheme
\* calls, succeeding or failing, GetRender() is non-nil and non-empty when
\* each call returns.
C2_RenderNeverEmptyUnderSwitches == onlySwitches => NonEmpty(GetRender(tm))

\* a failed switch in such a sequence, the render still holding templates
C2_Witness ==
  /\ onlySwitches /\ last.op = "SwitchTheme" /\ last.type = "ThemeSwitchFailed" /\ last.ran
  /\ NonEmpty(GetRender(tm))

\* C3: when the load fails during SwitchTheme(name), name registered and not
\* current (the load function returns a nil or empty render, or there is no
\* load function), currentTheme and render are exactly the values held before
\* the call and the error is ThemeSwitchFailed caused by the load error.
C3_LoadFailureRestoresSnapshot ==
  \A name \in GetAvailableThemes(tm) \ {GetCurrentTheme(tm)} : \A out \in OutsFor(name) :
    LET r == SwitchTheme(tm, name, out) IN
    (~tm.loadFunc \/ out.isNil \/ RenderLen(out) = 0) =>
       /\ r.tm.currentTheme = tm.currentTheme
       /\ r.tm.render = tm.render
       /\ r.err.Type = "ThemeSwitchFailed"
       /\ r.err.Cause = "ThemeLoadFailed"

\* a switch has failed on the load and the render holds the previous templates
C3_Witness ==
  /\ last.op = "SwitchTheme" /\ last.type = "ThemeSwitchFailed" /\ last.cause = "ThemeLoadFailed"
  /\ last.ran
  /\ NonEmpty(GetRender(tm))
  /\ ThemeExists(tm, GetCurrentTheme(tm))

\* C4: SwitchTheme(name) commits only if the loaded render is non-empty and
\* has a key of the page, single or error category; when it has none, the
\* call restores currentTheme and render and returns ThemeSwitchFailed.
C4_SwitchRequiresCategoryKey ==
  \A name \in GetAvailableThemes(tm) \ {GetCurrentTheme(tm)} : \A out \in OutsFor(name) :
    LET r == SwitchTheme(tm, name, out)
        hasCategory == \E t \in out.tmpls : IsCategoryKey(t.key)
    IN /\ (r.err = Nil => NonEmpty(out) /\ hasCategory)
       /\ (r.ran /\ ~hasCategory =>
             /\ r.tm.currentTheme = tm.currentTheme
             /\ r.tm.render = tm.render
             /\ r.err.Type = "ThemeSwitchFailed")

\* C5: SwitchTheme(name) with a name that is no key of themes (the empty
\* string included) returns ThemeNotFound, leaves currentTheme, themes and
\* render as they were and does not invoke the load function.
C5_UnknownNameIsNotFound ==
  \A name \in ArgNames \ GetAvailableThemes(tm) : \A out \in OutsFor(name) :
    LET r == SwitchTheme(tm, name, out) IN
    /\ r.err.Type = "ThemeNotFound"
    /\ r.tm.currentTheme = tm.currentTheme
    /\ r.tm.themes = tm.themes
    /\ r.tm.render = tm.render
    /\ ~r.ran

\* a switch to an unknown name has returned ThemeNotFound on a populated registry
C5_Witness ==
  /\ last.op = "SwitchTheme" /\ last.type = "ThemeNotFound" /\ ~last.ran
  /\ GetAvailableThemes(tm) # {}
  /\ NonEmpty(GetRender(tm))

\* C6 as stated: in every reachable state SwitchTheme(GetCurrentTheme())
\* returns nil, does not invoke the load function and changes nothing.
C6_SwitchToCurrentAlwaysSucceeds ==
  \A out \in OutsFor(GetCurrentTheme(tm)) :
    LET r == SwitchTheme(tm, GetCurrentTheme(tm), out) IN
    r.err = Nil /\ ~r.ran /\ r.tm = tm

\* C6: in every reachable state in which GetCurrentTheme() is a key of
\* themes, SwitchTheme(GetCurrentTheme()) returns nil, does not invoke the
\* load function and changes nothing.
C6_SwitchToRegisteredCurrentIsNoOp ==
  ThemeExists(tm, GetCurrentTheme(tm)) =>
    \A out \in OutsFor(GetCurrentTheme(tm)) :
      LET r == SwitchTheme(tm, GetCurrentTheme(tm), out) IN
      r.err = Nil /\ ~r.ran /\ r.tm = tm

\* a switch has returned nil without a load, on a registry with several themes
C6_Witness ==
  /\ last.op = "SwitchTheme" /\ last.type = "nil" /\ ~last.ran
  /\ ThemeExists(tm, GetCurrentTheme(tm))
  /\ Cardinality(GetAvailableThemes(tm)) >= 2

\* C7: in a sequence of SwitchTheme calls on discovered themes that load
\* successfully, after each call GetCurrentTheme() is the call's target, the
\* set of available themes is unchanged and the render is non-nil.
C7_SuccessfulSwitchCommits ==
  /\ \A name \in GetAvailableThemes(tm) : \A out \in OutsFor(name) :
       LET r == SwitchTheme(tm, name, out) IN
       r.err = Nil => /\ GetCurrentTheme(r.tm) = name
                      /\ GetAvailableThemes(r.tm) = GetAvailableThemes(tm)
                      /\ (r.ran => ~GetRender(r.tm).isNil)
  /\ (onlySwitches /\ last.op = "SwitchTheme" /\ last.type = "nil" => ~GetRender(tm).isNil)

\* a switch has loaded another theme and committed it
C7_Witness ==
  /\ onlySwitches /\ last.op = "SwitchTheme" /\ last.type = "nil" /\ last.ran
  /\ \E t \in GetRender(tm).tmpls : t.dir = tm.themes[GetCurrentTheme(tm)].Path
  /\ GetCurrentTheme(tm) # tm.defaultTheme

\* C8: when ReloadCurrentTheme fails after the load function has run, the
\* render is what the load function returned (nil or empty), not the render
\* held before; currentTheme is unchanged and the caller gets the error.
C8_FailedReloadKeepsLoaderResult ==
  \A out \in OutsFor(GetCurrentTheme(tm)) :
    LET r == ReloadCurrentTheme(tm, out) IN
    (r.err # Nil /\ r.ran) => /\ r.tm.render = out
                              /\ RenderLen(r.tm.render) = 0
                              /\ r.tm.currentTheme = tm.currentTheme
                              /\ r.err.Type = "ThemeLoadFailed"

\* a reload of a registered theme has failed after the load and left no template
C8_Witness ==
  /\ last.op = "ReloadCurrentTheme" /\ last.type = "ThemeLoadFailed" /\ last.ran
  /\ ThemeExists(tm, GetCurrentTheme(tm))
  /\ ~NonEmpty(GetRender(tm))

\* C9: at every observation point the registry holds one render, and it is
\* the result of one load of one theme directory (or the cleared render):
\* its template count is that of a single theme, never a sum over themes.
C9_SingleThemeRender ==
  \E dir \in {TemplatesDir} \cup {Join(TemplatesDir, NameOrder[i]) : i \in 1..Len(NameOrder)} :
    GetRender(tm) \in LoadOutcomes(dir)

\* a second theme has been switched to and its templates are the render
C9_Witness ==
  /\ last.op = "SwitchTheme" /\ last.type = "nil" /\ last.ran
  /\ GetCurrentTheme(tm) # tm.defaultTheme
  /\ RenderLen(GetRender(tm)) = 3
  /\ \A t \in GetRender(tm).tmpls : t.dir = tm.themes[GetCurrentTheme(tm)].Path

(***************************************************************************)
(* Engine (engine.go)                                                      *)
(*                                                                         *)
(* Within one operation the load function returns the same render for the  *)
(* same directory.                                                         *)
(***************************************************************************)
\* the result of an engine operation: the engine, its theme manager and the error
ERet(e, m, err) == [en |-> e, tm |-> m, err |-> err]

\* NewEngine / NewEngineWithEmbedFS with the options SetTheme(theme) and
\* DefaultTheme(defaultTheme).  watchDir is the directory whose tree the
\* watcher holds, "" when it holds none.  watcherOpen: en.watcher has not
\* been closed.  done: the channel en.done ("nil", "open" or "closed").
\* loops: the goroutines started by Watching.  started: a call of Watching
\* has returned nil.  panicked: the process has panicked.
NewEngine(embedded, theme, defaultTheme) ==
  [made |-> TRUE, inited |-> FALSE,
   templatesDir |-> IF embedded THEN "" ELSE TemplatesDir,
   tmplFS |-> embedded,
   watcher |-> ~embedded,
   watcherOpen |-> ~embedded,
   done |-> IF embedded THEN "nil" ELSE "open",
   loops |-> << >>,
   started |-> FALSE,
   panicked |-> FALSE,
   watchDir |-> "",
   themeManager |-> FALSE,
   currentTheme |-> theme,
   optsTheme |-> theme,
   optsDefaultTheme |-> defaultTheme,
   HTMLRender |-> NilRender]

\* Engine.determineTargetTheme
determineTargetTheme(e) ==
  IF e.optsTheme # "" THEN e.optsTheme
  ELSE IF e.currentTheme # "" THEN e.currentTheme
  ELSE IF e.optsDefaultTheme # "" THEN e.optsDefaultTheme
  ELSE ""

\* Engine.initThemeManager; outFirst is what the load function returns for the
\* theme discovery loads, outTarget for the theme selected afterwards.  When
\* discovery fails the engine keeps no theme manager.
initThemeManager(e, f, outFirst, outTarget) ==
  LET e1 == [e EXCEPT !.themeManager = TRUE]
      targetTheme == determineTargetTheme(e1)
      Selected(r) == IF r.err # Nil THEN ERet(e1, r.tm, r.err)
                     ELSE ERet([e1 EXCEPT !.currentTheme = GetCurrentTheme(r.tm)], r.tm, Nil)
      Discovered(d) ==
        IF d.err # Nil THEN ERet(e, NewDefaultThemeManager(e.tmplFS, TRUE), d.err)
        ELSE IF targetTheme # "" THEN Selected(SwitchTheme(d.tm, targetTheme, outTarget))
        ELSE IF GetCurrentTheme(d.tm) # "" THEN Selected(LoadTheme(d.tm, GetCurrentTheme(d.tm), outTarget))
        ELSE Selected(Ret(d.tm, Nil, FALSE))
  IN Discovered(DiscoverThemes(NewDefaultThemeManager(e.tmplFS, TRUE), f, outFirst))

\* Engine.loadTemplate
loadTemplate(e, outLegacy) == outLegacy

\* Engine.Init; outLegacy is what Engine.loadTemplate returns
EngineInit(e, f, outFirst, outTarget, outLegacy) ==
  LET Inited(i) ==
        IF i.err # Nil
        THEN ERet([i.en EXCEPT !.inited = TRUE, !.HTMLRender = loadTemplate(e, outLegacy)], i.tm, Nil)
        ELSE IF i.en.themeManager /\ ~GetRender(i.tm).isNil
             THEN ERet([i.en EXCEPT !.inited = TRUE, !.HTMLRender = GetRender(i.tm)], i.tm, Nil)
        ELSE ERet([i.en EXCEPT !.inited = TRUE, !.HTMLRender = loadTemplate(e, outLegacy)], i.tm, Nil)
  IN Inited(initThemeManager(e, f, outFirst, outTarget))

\* what os.Stat finds: the template root and the theme directories below it
\* ("all"), the template root only ("base"), or neither ("none")
Present == {"all", "base", "none"}

\* os.Stat(dir) finds a directory
IsDir(e, dir, present) == IF dir = e.templatesDir THEN present # "none" ELSE present = "all"

\* Engine.getWatchDirectory
getWatchDirectory(e, m, out, present) ==
  LET Loaded(r) ==
        IF /\ r.err = Nil
           /\ ~m.themes[e.currentTheme].IsEmbedded
           /\ m.themes[e.currentTheme].Path # ""
           /\ IsDir(e, m.themes[e.currentTheme].Path, present)
        THEN [tm |-> r.tm, dir |-> m.themes[e.currentTheme].Path]
        ELSE [tm |-> r.tm, dir |-> e.templatesDir]
  IN IF e.themeManager /\ e.currentTheme # ""
     THEN Loaded(LoadTheme(m, e.currentTheme, out))
     ELSE [tm |-> m, dir |-> e.templatesDir]

\* Engine.isTemplateFile
isTemplateFile(filename) == Ext(filename) \in {".tmpl", ".html", ".gohtml", ".tpl"}

\* Engine.isFileInCurrentTheme
isFileInCurrentTheme(e, m, filePath, out, present) ==
  LET In(g) == IF g.dir = "" THEN [tm |-> g.tm, res |-> FALSE]
               ELSE [tm |-> g.tm, res |-> HasPrefix(Abs(filePath), Abs(g.dir))]
  IN IF ~e.themeManager \/ e.currentTheme = ""
     THEN [tm |-> m, res |-> HasPrefix(filePath, e.templatesDir)]
     ELSE In(getWatchDirectory(e, m, out, present))

\* Engine.shouldReloadForFile
shouldReloadForFile(e, m, filePath, out, present) ==
  LET Checked(i) == [tm |-> i.tm, res |-> i.res /\ isTemplateFile(filePath)]
  IN Checked(isFileInCurrentTheme(e, m, filePath, out, present))

\* Engine.reloadCurrentThemeTemplates
reloadCurrentThemeTemplates(e, m, outReload) ==
  LET Reloaded(r) ==
        IF r.err # Nil THEN ERet(e, r.tm, PlainError)
        ELSE IF ~GetRender(r.tm).isNil THEN ERet([e EXCEPT !.HTMLRender = GetRender(r.tm)], r.tm, Nil)
        ELSE ERet(e, r.tm, PlainError)
  IN IF ~e.themeManager THEN ERet(e, m, PlainError)
     ELSE Reloaded(ReloadCurrentTheme(m, outReload))

\* Engine.reloadTemplates without the fallback to loadTemplate when the
\* reload of the current theme fails
reloadTemplates_NoFallback(e, m, outReload, outLegacy) ==
  LET Kept(r) == ERet(r.en, r.tm, Nil)
  IN IF e.themeManager THEN Kept(reloadCurrentThemeTemplates(e, m, outReload))
     ELSE ERet([e EXCEPT !.HTMLRender = loadTemplate(e, outLegacy)], m, Nil)

\* Engine.reloadTemplates
reloadTemplates(e, m, outReload, outLegacy) ==
  LET Fallback(r) ==
        IF r.err # Nil THEN ERet([r.en EXCEPT !.HTMLRender = loadTemplate(e, outLegacy)], r.tm, Nil)
        ELSE r
  IN IF e.themeManager THEN Fallback(reloadCurrentThemeTemplates(e, m, outReload))
     ELSE ERet([e EXCEPT !.HTMLRender = loadTemplate(e, outLegacy)], m, Nil)

\* Engine.ReloadCurrentTheme
EngineReloadCurrentTheme(e, m, outReload, outLegacy) ==
  IF ~e.themeManager THEN ERet([e EXCEPT !.HTMLRender = loadTemplate(e, outLegacy)], m, Nil)
  ELSE reloadCurrentThemeTemplates(e, m, outReload)

\* the operations of an fsnotify event; a Create event names a new directory
\* ("CreateDir") or a file
EventOps == {"CreateDir", "Create", "Write", "Remove", "Chmod"}

\* Engine.handleFileEvent; res: the event made the engine reload.  out is what
\* the load function returns for the directory of the engine's current theme,
\* outReload for that of the theme manager's.
handleFileEvent(e, m, op, filePath, out, present, outReload, outLegacy) ==
  LET Reload(r) == [en |-> r.en, tm |-> r.tm, res |-> TRUE]
      Decided(s) == IF s.res THEN Reload(reloadTemplates(e, s.tm, outReload, outLegacy))
                    ELSE [en |-> e, tm |-> s.tm, res |-> FALSE]
  IN IF op \in {"CreateDir", "Chmod"} THEN [en |-> e, tm |-> m, res |-> FALSE]
     ELSE Decided(shouldReloadForFile(e, m, filePath, out, present))

\* the outcomes of replacing the watcher: "ok", or the step that fails
\* (watcher.Close, fsnotify.NewWatcher, watcher.Add)
WatcherOutcomes == {"ok", "close", "new", "add"}

\* Engine.validateWatchDirectory(dir) == nil
validateWatchDirectory(e, dir, present) == dir # "" /\ IsDir(e, dir, present)

\* a goroutine of Watching: waiting in the select on the Events channel of
\* the watcher that is en.watcher ("select") or of a watcher that has been
\* closed ("stale"), inside handleFileEvent(ev) ("handling"), or returned
\* ("exited").  raced: en.watcher was closed or replaced while the goroutine
\* was inside handleFileEvent.
NoEvent == [op |-> "none", path |-> ""]

Loop(at, ev, raced) == [at |-> at, ev |-> ev, raced |-> raced]

\* fsnotify.Watcher.Close as the goroutines see it: the Events channel is
\* closed under those waiting on it
WatcherClosed(loops) ==
  [i \in DOMAIN loops |->
     IF loops[i].at = "select" THEN Loop("stale", NoEvent, FALSE)
     ELSE IF loops[i].at = "handling" THEN Loop("handling", loops[i].ev, TRUE)
     ELSE loops[i]]

\* Engine.setupWatching on a watcher that holds no watch; watcher.Add fails
\* on a closed watcher
setupWatching(e, m, out, present, w) ==
  LET Setup(g) ==
        IF ~validateWatchDirectory(e, g.dir, present) THEN ERet(e, g.tm, PlainError)
        ELSE IF w = "add" \/ ~e.watcherOpen THEN ERet(e, g.tm, PlainError)
        ELSE ERet([e EXCEPT !.watchDir = g.dir], g.tm, Nil)
  IN Setup(getWatchDirectory(e, m, out, present))

\* Engine.updateWatcher without the replacement of the watcher: the watches
\* held stay, setupWatching is not called
updateWatcher_KeepsWatches(e, m, out, present, w) ==
  IF ~e.watcher \/ e.tmplFS THEN ERet(e, m, Nil)
  ELSE IF w # "ok" THEN ERet(e, m, PlainError)
  ELSE ERet([e EXCEPT !.watchDir = IF e.watchDir = "" THEN e.templatesDir ELSE e.watchDir], m, Nil)

\* Engine.updateWatcher
updateWatcher(e, m, out, present, w) ==
  IF ~e.watcher \/ e.tmplFS THEN ERet(e, m, Nil)
  ELSE IF w = "close" THEN ERet(e, m, PlainError)
  ELSE IF w = "new"
       THEN ERet([e EXCEPT !.watchDir = "", !.watcherOpen = FALSE, !.loops = WatcherClosed(e.loops)],
                 m, PlainError)
  ELSE setupWatching([e EXCEPT !.watchDir = "", !.watcherOpen = TRUE, !.loops = WatcherClosed(e.loops)],
                     m, out, present, w)

\* Engine.updateWatcherForTheme
updateWatcherForTheme(e, m, out, present, w) ==
  LET Update(g) ==
        IF ~validateWatchDirectory(e, g.dir, present) THEN ERet(e, g.tm, PlainError)
        ELSE updateWatcher(e, g.tm, out, present, w)
  IN IF ~e.watcher \/ e.tmplFS THEN ERet(e, m, Nil)
     ELSE Update(getWatchDirectory(e, m, out, present))

\* Engine.SwitchTheme without the `if err := ...; err != nil { }` that drops
\* the error of updateWatcherForTheme
EngineSwitchTheme_ReturnsRerootError(e, m, themeName, out, present, w) ==
  LET Rerooted(e1, m1) ==
        IF e1.watcher /\ ~e1.tmplFS THEN updateWatcherForTheme(e1, m1, out, present, w)
        ELSE ERet(e1, m1, Nil)
      Switched(r) ==
        IF r.err # Nil THEN ERet(e, r.tm, r.err)
        ELSE Rerooted([e EXCEPT !.currentTheme = GetCurrentTheme(r.tm),
                                !.HTMLRender = IF ~GetRender(r.tm).isNil THEN GetRender(r.tm)
                                               ELSE e.HTMLRender],
                      r.tm)
  IN IF ~e.themeManager THEN ERet(e, m, ThemeError("ThemeSwitchFailed", themeName, Nil))
     ELSE Switched(SwitchTheme(m, themeName, out))

\* Engine.SwitchTheme without the assignment of en.HTMLRender
EngineSwitchTheme_KeepsRender(e, m, themeName, out, present, w) ==
  LET Ignored(u) == ERet(u.en, u.tm, Nil)
      Rerooted(e1, m1) ==
        IF e1.watcher /\ ~e1.tmplFS THEN Ignored(updateWatcherForTheme(e1, m1, out, present, w))
        ELSE ERet(e1, m1, Nil)
      Switched(r) ==
        IF r.err # Nil THEN ERet(e, r.tm, r.err)
        ELSE Rerooted([e EXCEPT !.currentTheme = GetCurrentTheme(r.tm)], r.tm)
  IN IF ~e.themeManager THEN ERet(e, m, ThemeError("ThemeSwitchFailed", themeName, Nil))
     ELSE Switched(SwitchTheme(m, themeName, out))

\* the call of updateWatcherForTheme inside Engine.SwitchTheme, made after a
\* successful registry switch on an engine with a file-system watcher
Reroot(e, m, themeName, out, present, w) ==
  LET After(r) == updateWatcherForTheme([e EXCEPT !.currentTheme = GetCurrentTheme(r.tm)], r.tm, out, present, w)
  IN After(SwitchTheme(m, themeName, out))

\* Engine.SwitchTheme reaches updateWatcherForTheme
Rerooting(e, m, themeName, out) ==
  e.themeManager /\ e.watcher /\ ~e.tmplFS /\ SwitchTheme(m, themeName, out).err = Nil

\* Engine.SwitchTheme
EngineSwitchTheme(e, m, themeName, out, present, w) ==
  LET Ignored(u) == ERet(u.en, u.tm, Nil)
      Rerooted(e1, m1) ==
        IF e1.watcher /\ ~e1.tmplFS THEN Ignored(updateWatcherForTheme(e1, m1, out, present, w))
        ELSE ERet(e1, m1, Nil)
      Switched(r) ==
        IF r.err # Nil THEN ERet(e, r.tm, r.err)
        ELSE Rerooted([e EXCEPT !.currentTheme = GetCurrentTheme(r.tm),
                                !.HTMLRender = IF ~GetRender(r.tm).isNil THEN GetRender(r.tm)
                                               ELSE e.HTMLRender],
                      r.tm)
  IN IF ~e.themeManager THEN ERet(e, m, ThemeError("ThemeSwitchFailed", themeName, Nil))
     ELSE Switched(SwitchTheme(m, themeName, out))

\* number of goroutines Watching may have started
MaxLoops == 1

\* Engine.Watching: the checks, the goroutine, setupWatching
Watching(e, m, out, present, w) ==
  LET Started(r) == ERet([r.en EXCEPT !.started = r.en.started \/ (r.err = Nil)], r.tm, r.err)
  IN IF ~e.watcher \/ e.tmplFS \/ e.templatesDir = "" THEN ERet(e, m, PlainError)
     ELSE Started(setupWatching(
            [e EXCEPT !.loops = Append(e.loops, Loop(IF e.watcherOpen THEN "select" ELSE "stale", NoEvent, FALSE))],
            m, out, present, w))

\* Engine.clearWatcher: the watcher is closed and replaced by one that holds
\* no watch
clearWatcher(e, m, w) ==
  IF ~e.watcher THEN ERet(e, m, Nil)
  ELSE IF w = "close" THEN ERet(e, m, PlainError)
  ELSE IF w = "new"
       THEN ERet([e EXCEPT !.watchDir = "", !.watcherOpen = FALSE, !.loops = WatcherClosed(e.loops)],
                 m, PlainError)
  ELSE ERet([e EXCEPT !.watchDir = "", !.watcherOpen = TRUE, !.loops = WatcherClosed(e.loops)], m, Nil)

\* Engine.RestartWatching
RestartWatching(e, m, out, present, w) ==
  LET Restarted(c) == IF c.err # Nil THEN ERet(c.en, c.tm, PlainError)
                      ELSE Watching(c.en, c.tm, out, present, w)
  IN IF ~e.watcher \/ e.tmplFS THEN ERet(e, m, PlainError)
     ELSE Restarted(clearWatcher(e, m, w))

\* Engine.Close; close(en.done) panics when en.done is already closed
Close(e) ==
  IF e.done = "closed" THEN [e EXCEPT !.panicked = TRUE]
  ELSE IF ~e.watcher THEN e
  ELSE [e EXCEPT !.done = "closed", !.watcherOpen = FALSE, !.watchDir = "",
                 !.loops = WatcherClosed(e.loops)]

\* close(en.done) as the goroutines see it: those parked in the select take
\* `case <-en.done` and return
DoneClosed(loops) ==
  [i \in DOMAIN loops |->
     IF loops[i].at = "select" THEN Loop("stale", NoEvent, FALSE) ELSE loops[i]]

\* Engine.Close up to close(en.done)
closeDone(e) ==
  IF e.done = "closed" THEN [e EXCEPT !.panicked = TRUE]
  ELSE [e EXCEPT !.done = "closed", !.loops = DoneClosed(e.loops)]

\* Engine.Close from `if en.watcher == nil`: en.watcher.Close()
closeWatcher(e) ==
  IF ~e.watcher THEN e
  ELSE [e EXCEPT !.watcherOpen = FALSE, !.watchDir = "", !.loops = WatcherClosed(e.loops)]

\* the goroutine's `case event, ok := <-en.watcher.Events` with ok true
loopReceive(e, i, ev) == [e EXCEPT !.loops[i] = Loop("handling", ev, FALSE)]

\* the goroutine back at the select after handleFileEvent: it reads
\* en.watcher again, unsynchronised with a concurrent replacement
LoopResumeAt(e, i) ==
  IF e.loops[i].raced THEN {"select", "stale"}
  ELSE IF e.watcherOpen THEN {"select"} ELSE {"stale"}

\* the goroutine's `case <-en.done: return` and `if !ok { return }`
loopCanReturn(e, i) ==
  \/ e.loops[i].at = "stale"
  \/ e.loops[i].at = "select" /\ e.done = "closed"

loopReturn(e, i) == [e EXCEPT !.loops[i] = Loop("exited", NoEvent, FALSE)]

\* the paths classified: a template file under each candidate directory,
\* another file under the first, a template file directly under the template
\* root, one outside it, and one given as an absolute path
FilePaths ==
  {Join(Join(TemplatesDir, d), "pages/x.tmpl") : d \in Dirs}
    \cup {Join(Join(TemplatesDir, DirNames[1]), "style.css"),
          Join(TemplatesDir, "x.tmpl"),
          "o/x.tmpl",
          Join(Cwd, Join(Join(TemplatesDir, DirNames[1]), "pages/x.tmpl"))}

\* the paths of the events delivered: a template file under the first and
\* under the last candidate directory, and another file under the first
EventPaths ==
  {Join(Join(TemplatesDir, DirNames[1]), "pages/x.tmpl"),
   Join(Join(TemplatesDir, DirNames[Len(DirNames)]), "pages/x.tmpl"),
   Join(Join(TemplatesDir, DirNames[1]), "style.css")}

\* the operations of the events delivered
DeliveredOps == {"CreateDir", "Write", "Chmod"}

\* the theme names given to Engine.SwitchTheme
EngineArgNames == Dirs \cup {"default", "ghost"}

\* the engines built: NewEngine with the options SetTheme and DefaultTheme,
\* and NewEngineWithEmbedFS
EngineOptions ==
  {[embedded |-> FALSE, theme |-> "", defaultTheme |-> ""],
   [embedded |-> FALSE, theme |-> DirNames[Len(DirNames)], defaultTheme |-> ""],
   [embedded |-> FALSE, theme |-> "ghost", defaultTheme |-> DirNames[1]],
   [embedded |-> TRUE, theme |-> "", defaultTheme |-> ""]}

\* what the engine's load function returns for a theme directory: a nil map,
\* or a map of templates compiled from that directory
EngineLoadOutcomes(dir) ==
  { NilRender,
    [isNil |-> FALSE, tmpls |-> {Tmpl(PartialKey, dir, TRUE)}],
    [isNil |-> FALSE, tmpls |-> {Tmpl(PageKey, dir, TRUE), Tmpl(SingleKey, dir, TRUE), Tmpl(ErrorKey, dir, TRUE)}] }

\* what Engine.loadTemplate returns
LegacyOutcomes == {NilRender, [isNil |-> FALSE, tmpls |-> {Tmpl(PageKey, TemplatesDir, TRUE)}]}

\* The inputs an operation reads: a load outcome where it loads, the
\* directories present where it calls os.Stat, a watcher outcome where it
\* replaces the watcher.
InitTargetOuts(e, f) ==
  EngineLoadOutcomes(IF determineTargetTheme(e) \in Dirs THEN Join(TemplatesDir, determineTargetTheme(e))
               ELSE FirstDir(f))

ReloadOuts(e, m) ==
  IF e.themeManager /\ ThemeExists(m, GetCurrentTheme(m)) THEN EngineLoadOutcomes(LoadDir(m, GetCurrentTheme(m)))
  ELSE {NilRender}

EventOuts(e, m, op) ==
  IF op \notin {"CreateDir", "Chmod"} /\ e.themeManager /\ ThemeExists(m, e.currentTheme)
  THEN EngineLoadOutcomes(LoadDir(m, e.currentTheme))
  ELSE {NilRender}

EventPresent(e, m, op, out) ==
  IF op \notin {"CreateDir", "Chmod"} /\ e.themeManager /\ e.currentTheme # ""
       /\ LoadTheme(m, e.currentTheme, out).err = Nil
  THEN {"all", "base"}
  ELSE {"all"}

EventReloadOuts(e, m, op, filePath, out, present) ==
  IF ~shouldReloadForFile(e, m, filePath, out, present).res \/ op \in {"CreateDir", "Chmod"} THEN {NilRender}
  ELSE IF e.currentTheme = GetCurrentTheme(m) THEN {out}
  ELSE ReloadOuts(e, m)

EventLegacyOuts(e, m, op, filePath, out, present, outReload) ==
  IF op \in {"CreateDir", "Chmod"} \/ ~shouldReloadForFile(e, m, filePath, out, present).res THEN {NilRender}
  ELSE IF e.themeManager /\ ~GetRender(ReloadCurrentTheme(m, outReload).tm).isNil
            /\ ReloadCurrentTheme(m, outReload).err = Nil THEN {NilRender}
  ELSE LegacyOutcomes

SwitchOuts(e, m, themeName) ==
  IF e.themeManager /\ ThemeExists(m, themeName) /\ (themeName # GetCurrentTheme(m) \/ (e.watcher /\ ~e.tmplFS))
  THEN EngineLoadOutcomes(LoadDir(m, themeName))
  ELSE {NilRender}

SwitchEnvs(e, m, themeName, out) ==
  IF e.themeManager /\ e.watcher /\ ~e.tmplFS /\ SwitchTheme(m, themeName, out).err = Nil
  THEN ({"all"} \X WatcherOutcomes) \cup {<<"base", "ok">>, <<"base", "add">>, <<"none", "ok">>}
  ELSE {<<"all", "ok">>}

InitEngine ==
  /\ tm = NewDefaultThemeManager(FALSE, TRUE)
  /\ en = NoEngine
  /\ last = NoCall
  /\ onlySwitches = FALSE
  /\ th = NoThreads
  /\ disk = NoDisk

DoNewEngine ==
  /\ ~en.made
  /\ \E o \in EngineOptions :
       /\ en' = NewEngine(o.embedded, o.theme, o.defaultTheme)
       /\ tm' = NewDefaultThemeManager(o.embedded, TRUE)
  /\ last' = [NoCall EXCEPT !.op = "NewEngine"]
  /\ UNCHANGED onlySwitches
  /\ UNCHANGED <<th, disk>>

DoEngineInit ==
  /\ en.made /\ ~en.inited
  /\ \E f \in FsStates :
       \E outFirst \in EngineLoadOutcomes(FirstDir(f)), outTarget \in InitTargetOuts(en, f), outLegacy \in LegacyOutcomes :
         LET r == EngineInit(en, f, outFirst, outTarget, outLegacy) IN
         /\ en' = r.en
         /\ tm' = r.tm
  /\ last' = [NoCall EXCEPT !.op = "Engine.Init"]
  /\ UNCHANGED onlySwitches
  /\ UNCHANGED <<th, disk>>

DoEngineSwitchTheme ==
  /\ en.made /\ en.inited
  /\ \E themeName \in EngineArgNames : \E out \in SwitchOuts(en, tm, themeName) :
       \E env \in SwitchEnvs(en, tm, themeName, out) :
         LET r == EngineSwitchTheme(en, tm, themeName, out, env[1], env[2]) IN
         /\ en' = r.en
         /\ tm' = r.tm
         /\ last' = [NoCall EXCEPT !.op = "Engine.SwitchTheme", !.type = r.err.Type,
                                   !.ran = SwitchTheme(tm, themeName, out).ran,
                                   !.res = /\ Rerooting(en, tm, themeName, out)
                                           /\ Reroot(en, tm, themeName, out, env[1], env[2]).err # Nil]
  /\ UNCHANGED onlySwitches
  /\ UNCHANGED <<th, disk>>

DoEngineReloadCurrentTheme ==
  /\ en.made /\ en.inited
  /\ \E outReload \in ReloadOuts(en, tm) :
       \E outLegacy \in (IF en.themeManager THEN {NilRender} ELSE LegacyOutcomes) :
         LET r == EngineReloadCurrentTheme(en, tm, outReload, outLegacy) IN
         /\ en' = r.en
         /\ tm' = r.tm
         /\ last' = [NoCall EXCEPT !.op = "Engine.ReloadCurrentTheme", !.type = r.err.Type]
  /\ UNCHANGED onlySwitches
  /\ UNCHANGED <<th, disk>>

DoHandleFileEvent ==
  /\ en.made /\ en.inited /\ en.watcher
  /\ \E op \in DeliveredOps, filePath \in EventPaths :
       \E out \in EventOuts(en, tm, op) : \E present \in EventPresent(en, tm, op, out) :
         \E outReload \in EventReloadOuts(en, tm, op, filePath, out, present) :
           \E outLegacy \in EventLegacyOuts(en, tm, op, filePath, out, present, outReload) :
             LET r == handleFileEvent(en, tm, op, filePath, out, present, outReload, outLegacy) IN
             /\ en' = r.en
             /\ tm' = r.tm
             /\ last' = [NoCall EXCEPT !.op = "handleFileEvent", !.res = r.res]
  /\ UNCHANGED onlySwitches
  /\ UNCHANGED <<th, disk>>

NextEngine ==
  \/ DoNewEngine
  \/ DoEngineInit
  \/ DoEngineSwitchTheme
  \/ DoEngineReloadCurrentTheme
  \/ DoHandleFileEvent

SpecEngine == InitEngine /\ [][NextEngine]_vars

(***************************************************************************)
(* The engine with its file watch: Watching, the goroutine it starts,      *)
(* Engine.SwitchTheme from a caller, Close.  A step of the goroutine and a *)
(* call from the caller are atomic.                                        *)
(***************************************************************************)
\* the process has not panicked
Alive == en.made /\ ~en.panicked

\* the trees the watching engine is initialised on: every candidate a valid
\* theme, or a legacy root
WatchTrees ==
  {[root |-> "invalid", kids |-> [d \in Dirs |-> "valid"]],
   [root |-> "valid", kids |-> [d \in Dirs |-> "invalid"]]}

\* what the load function of the watching engine returns for a directory
WatchLoadOutcomes(dir) == {o \in EngineLoadOutcomes(dir) : o.isNil \/ RenderLen(o) = 3}

\* the result of the load function where the operation loads the theme `name`
WatchOuts(m, name) ==
  IF ThemeExists(m, name) THEN WatchLoadOutcomes(LoadDir(m, name)) ELSE {NilRender}

InitWatching ==
  /\ tm = NewDefaultThemeManager(FALSE, TRUE)
  /\ en = NewEngine(FALSE, "", "")
  /\ last = [NoCall EXCEPT !.op = "NewEngine"]
  /\ onlySwitches = FALSE
  /\ th = NoThreads
  /\ disk = NoDisk

WatchEngineInit ==
  /\ Alive /\ ~en.inited
  /\ \E f \in WatchTrees : \E out \in WatchLoadOutcomes(FirstDir(f)), outLegacy \in LegacyOutcomes :
       LET r == EngineInit(en, f, out, out, outLegacy) IN
       /\ en' = r.en
       /\ tm' = r.tm
  /\ last' = [NoCall EXCEPT !.op = "Engine.Init"]
  /\ UNCHANGED onlySwitches
  /\ UNCHANGED <<th, disk>>

DoWatching ==
  /\ Alive /\ en.inited /\ Len(en.loops) < MaxLoops
  /\ th = NoThreads
  /\ \E out \in WatchOuts(tm, en.currentTheme), present \in {"all", "base"}, w \in {"ok", "add"} :
       LET r == Watching(en, tm, out, present, w) IN
       /\ en' = r.en
       /\ tm' = r.tm
       /\ last' = [NoCall EXCEPT !.op = "Engine.Watching", !.type = r.err.Type]
  /\ UNCHANGED onlySwitches
  /\ UNCHANGED <<th, disk>>

WatchSwitchTheme ==
  /\ Alive /\ en.inited
  /\ \E themeName \in EngineArgNames : \E out \in WatchOuts(tm, themeName) :
       \E env \in SwitchEnvs(en, tm, themeName, out) :
         LET r == EngineSwitchTheme(en, tm, themeName, out, env[1], env[2]) IN
         /\ en' = r.en
         /\ tm' = r.tm
         /\ last' = [NoCall EXCEPT !.op = "Engine.SwitchTheme", !.type = r.err.Type,
                                   !.ran = SwitchTheme(tm, themeName, out).ran,
                                   !.res = /\ Rerooting(en, tm, themeName, out)
                                           /\ Reroot(en, tm, themeName, out, env[1], env[2]).err # Nil]
  /\ UNCHANGED onlySwitches
  /\ UNCHANGED <<th, disk>>

\* the watcher delivers an event of a path in the tree it watches to a
\* goroutine waiting on its Events channel
LoopReceive ==
  /\ Alive /\ en.watchDir # ""
  /\ \E i \in DOMAIN en.loops, op \in DeliveredOps, filePath \in EventPaths :
       /\ en.loops[i].at = "select"
       /\ Under(filePath, en.watchDir)
       /\ en' = loopReceive(en, i, [op |-> op, path |-> filePath])
  /\ UNCHANGED <<tm, last, onlySwitches, disk>>
  /\ UNCHANGED <<th, disk>>

\* the goroutine runs handleFileEvent and comes back to the select
LoopHandle ==
  /\ Alive
  /\ \E i \in DOMAIN en.loops :
       /\ en.loops[i].at = "handling"
       /\ \E out \in WatchOuts(tm, en.currentTheme), outReload \in WatchOuts(tm, GetCurrentTheme(tm)) :
            \E at \in LoopResumeAt(en, i) :
              LET r == handleFileEvent(en, tm, en.loops[i].ev.op, en.loops[i].ev.path,
                                       out, "all", outReload, NilRender) IN
              /\ en' = [r.en EXCEPT !.loops[i] = Loop(at, NoEvent, FALSE)]
              /\ tm' = r.tm
              /\ last' = [NoCall EXCEPT !.op = "handleFileEvent", !.res = r.res]
  /\ UNCHANGED onlySwitches
  /\ UNCHANGED <<th, disk>>

\* the goroutine returns: en.done is closed, or its Events channel is
LoopReturn ==
  /\ Alive
  /\ \E i \in DOMAIN en.loops :
       /\ loopCanReturn(en, i)
       /\ en' = loopReturn(en, i)
  /\ UNCHANGED <<tm, last, onlySwitches, disk>>
  /\ UNCHANGED <<th, disk>>

DoClose ==
  /\ Alive
  /\ en' = Close(en)
  /\ last' = [NoCall EXCEPT !.op = "Engine.Close", !.type = IF Close(en).panicked THEN "panic" ELSE "nil"]
  /\ UNCHANGED <<tm, onlySwitches, disk>>
  /\ UNCHANGED <<th, disk>>

NextWatching ==
  \/ WatchEngineInit
  \/ DoWatching
  \/ WatchSwitchTheme
  \/ LoopReceive
  \/ LoopHandle
  \/ LoopReturn
  \/ DoClose

SpecWatching == InitWatching /\ [][NextWatching]_vars

(***************************************************************************)
(* Properties of the engine                                                *)
(***************************************************************************)
\* a file-system engine with a watcher, the engine and the registry agreeing
\* on a registered current theme
ActiveThemeKnown ==
  /\ en.made /\ en.inited /\ en.themeManager
  /\ en.watcher /\ ~en.tmplFS
  /\ en.currentTheme = GetCurrentTheme(tm)
  /\ ThemeExists(tm, GetCurrentTheme(tm))

\* the root directory of the active theme
ActiveRoot == tm.themes[GetCurrentTheme(tm)].Path

\* C10: on a watching file-system engine, whatever the discovered theme
\* names, for every path that is not under the active theme's root
\* Engine.isFileInCurrentTheme and Engine.shouldReloadForFile return false,
\* and for a template file under that root both return true (the theme
\* loading and its directory present).
C10_WatchIsolation ==
  ActiveThemeKnown =>
    \A filePath \in FilePaths : \A out \in LoadOutcomes(ActiveRoot) :
      NonEmpty(out) =>
        LET i == isFileInCurrentTheme(en, tm, filePath, out, "all")
            s == shouldReloadForFile(en, tm, filePath, out, "all")
        IN /\ (~Under(filePath, ActiveRoot) => ~i.res /\ ~s.res)
           /\ (Under(filePath, ActiveRoot) /\ isTemplateFile(filePath) => i.res /\ s.res)

(***************************************************************************)
(* Properties of discovery                                                 *)
(***************************************************************************)
\* the children of f that pass ValidateTheme
Survivors(f) == {d \in DOMAIN f.kids : ValidateThemeOK(f.kids[d])}

\* C15: in multi-theme discovery a candidate that fails validation is left
\* out and enumeration continues: DiscoverThemes returns an error only when
\* no candidate survives validation or the load of the initial theme fails,
\* and after a success every surviving candidate is registered.
\* Violated: a candidate whose theme.json passes ValidateTheme but does not
\* unmarshal into ThemeMetadata makes discoverMultipleThemes return
\* ThemeConfigInvalid.
C15_InvalidCandidateIsSkipped ==
  \A f \in Trees : \A out \in LoadOutcomes(FirstDir(f)) :
    LET r == DiscoverThemes(tm, f, out) IN
    (f.root # "missing" /\ DetectMode(f) = "ModeMultiTheme")
      => /\ r.err # Nil => (Survivors(f) = {} \/ r.err.Type = "ThemeLoadFailed")
         /\ r.err = Nil => GetAvailableThemes(r.tm) = Survivors(f)

\* C16: a readable tree in which neither the root nor any child passes
\* ValidateTheme makes DiscoverThemes return ThemeNotFound, and on no tree
\* does DiscoverThemes return ThemeInvalid or ThemeConfigInvalid.
\* Violated: DetectMode answers ModeLegacy for a tree without a valid theme
\* and discoverLegacyTheme returns ThemeInvalid.
C16_NoValidThemeIsNotFound ==
  \A f \in Trees : \A out \in LoadOutcomes(FirstDir(f)) :
    LET r == DiscoverThemes(tm, f, out) IN
    /\ (f.root # "missing" /\ ~ValidateThemeOK(f.root) /\ Survivors(f) = {})
         => r.err.Type = "ThemeNotFound"
    /\ r.err.Type \notin {"ThemeInvalid", "ThemeConfigInvalid"}

\* the results of the load function for the two themes of the scenario
DarkOuts == LoadOutcomes(Join(TemplatesDir, "dark"))

DefaultOuts == LoadOutcomes(Join(TemplatesDir, "default"))

\* the rest of the scenario from the registry m left by discovery:
\* SwitchTheme("dark") makes dark current, SwitchTheme("ghost") returns
\* ThemeNotFound and keeps dark, a second SwitchTheme("dark") changes nothing
ScenarioSwitches(m) ==
  \A o1 \in DarkOuts :
    LET r1 == SwitchTheme(m, "dark", o1) IN
    r1.err = Nil =>
      /\ GetCurrentTheme(r1.tm) = "dark"
      /\ LET r2 == SwitchTheme(r1.tm, "ghost", NilRender) IN
         /\ r2.err.Type = "ThemeNotFound"
         /\ GetCurrentTheme(r2.tm) = "dark"
         /\ \A o3 \in DarkOuts :
              LET r3 == SwitchTheme(r2.tm, "dark", o3) IN
              r3.err = Nil /\ ~r3.ran /\ r3.tm = r2.tm

\* C17 (as stated): on the root with the valid themes default/ and dark/,
\* a successful DiscoverThemes detects MultiTheme, registers both and makes
\* "default" current; the switches of the scenario follow.
\* Violated: the first entry of os.ReadDir is dark/, so "dark" is current.
C17_ScenarioCurrentIsDefault ==
  \A o0 \in DarkOuts \cup DefaultOuts :
    LET r0 == DiscoverThemes(tm, ScenarioTree, o0) IN
    r0.err = Nil =>
      /\ DetectMode(ScenarioTree) = "ModeMultiTheme"
      /\ GetAvailableThemes(r0.tm) = {"default", "dark"}
      /\ GetCurrentTheme(r0.tm) = "default"
      /\ ScenarioSwitches(r0.tm)

\* C17 (amended): on that root a successful DiscoverThemes detects
\* MultiTheme, registers both themes and makes "dark", the first entry in
\* file-name order, current and default; SwitchTheme("dark") is then already
\* a no-op, SwitchTheme("ghost") returns ThemeNotFound with "dark" still
\* current, and a successful SwitchTheme("default") makes "default" current.
C17_ScenarioCurrentIsFirstByName ==
  \A o0 \in DarkOuts :
    LET r0 == DiscoverThemes(tm, ScenarioTree, o0) IN
    r0.err = Nil =>
      /\ DetectMode(ScenarioTree) = "ModeMultiTheme"
      /\ GetAvailableThemes(r0.tm) = {"default", "dark"}
      /\ GetCurrentTheme(r0.tm) = "dark"
      /\ r0.tm.defaultTheme = "dark"
      /\ ScenarioSwitches(r0.tm)
      /\ \A o1 \in DarkOuts : LET r1 == SwitchTheme(r0.tm, "dark", o1) IN r1.err = Nil /\ ~r1.ran
      /\ \A o4 \in DefaultOuts :
           LET r4 == SwitchTheme(r0.tm, "default", o4) IN
           r4.err = Nil => GetCurrentTheme(r4.tm) = "default"

\* the scenario has run: both themes registered, dark current, and the last
\* call was a SwitchTheme that returned ThemeNotFound
C17_Witness ==
  /\ GetAvailableThemes(tm) = {"default", "dark"}
  /\ GetCurrentTheme(tm) = "dark"
  /\ last.op = "SwitchTheme"
  /\ last.type = "ThemeNotFound"

(***************************************************************************)
(* Properties of Engine.SwitchTheme                                        *)
(***************************************************************************)
\* an initialised engine with a theme manager
EngineReady == en.made /\ en.inited /\ en.themeManager

\* every template of the render was compiled from the directory of theme `name`
RenderOf(r, m, name) == NonEmpty(r) /\ \A t \in r.tmpls : t.dir = m.themes[name].Path

\* C12: when the registry switch inside Engine.SwitchTheme succeeds and
\* updateWatcherForTheme returns an error (watch directory invalid, or
\* closing, creating or filling the watcher fails), Engine.SwitchTheme
\* returns nil, the engine's and the registry's current theme are the new
\* theme, and HTMLRender is the render loaded for the new theme.
C12_RerootFailureKeepsSwitch ==
  EngineReady =>
    \A themeName \in EngineArgNames : \A out \in EngineLoadOutcomes(LoadDir(tm, themeName)) :
      Rerooting(en, tm, themeName, out) =>
        \A env \in SwitchEnvs(en, tm, themeName, out) :
          Reroot(en, tm, themeName, out, env[1], env[2]).err # Nil
          => LET r == EngineSwitchTheme(en, tm, themeName, out, env[1], env[2]) IN
             /\ r.err = Nil
             /\ r.en.currentTheme = themeName
             /\ GetCurrentTheme(r.tm) = themeName
             /\ (SwitchTheme(tm, themeName, out).ran
                   => r.en.HTMLRender = out /\ RenderOf(r.en.HTMLRender, r.tm, themeName))

\* Engine.SwitchTheme has loaded another theme and returned nil although
\* updateWatcherForTheme returned an error
C12_Witness ==
  /\ EngineReady
  /\ last.op = "Engine.SwitchTheme" /\ last.type = "nil" /\ last.ran /\ last.res
  /\ en.currentTheme = GetCurrentTheme(tm)
  /\ RenderOf(en.HTMLRender, tm, en.currentTheme)

C20_RenderAfterSuccess ==
  EngineReady =>
    /\ \A themeName \in EngineArgNames : \A out \in EngineLoadOutcomes(LoadDir(tm, themeName)) :
         SwitchTheme(tm, themeName, out).err = Nil =>
         \A env \in SwitchEnvs(en, tm, themeName, out) :
           LET r == EngineSwitchTheme(en, tm, themeName, out, env[1], env[2]) IN
           r.err = Nil => /\ GetCurrentTheme(r.tm) = themeName
                          /\ RenderOf(r.en.HTMLRender, r.tm, themeName)
    /\ \A outReload \in EngineLoadOutcomes(LoadDir(tm, GetCurrentTheme(tm))) :
         LET r == EngineReloadCurrentTheme(en, tm, outReload, NilRender) IN
         r.err = Nil => RenderOf(r.en.HTMLRender, r.tm, GetCurrentTheme(r.tm))

\* C20 (amended): once Engine.SwitchTheme to a theme other than the
\* registry's current theme, or Engine.ReloadCurrentTheme, has returned nil
\* on an engine with a theme manager, HTMLRender is the render set this call
\* loaded from the directory of the theme that is now current.  After
\* Engine.SwitchTheme to the registry's current theme HTMLRender is the
\* render the registry held before the call, or, if that was nil, the render
\* the engine held.
C20_RenderAfterLoadingSuccess ==
  EngineReady =>
    /\ \A themeName \in EngineArgNames : \A out \in EngineLoadOutcomes(LoadDir(tm, themeName)) :
         SwitchTheme(tm, themeName, out).err = Nil =>
         \A env \in SwitchEnvs(en, tm, themeName, out) :
           LET r == EngineSwitchTheme(en, tm, themeName, out, env[1], env[2]) IN
           r.err = Nil =>
             /\ GetCurrentTheme(r.tm) = themeName
             /\ r.en.currentTheme = themeName
             /\ themeName # GetCurrentTheme(tm)
                  => r.en.HTMLRender = out /\ RenderOf(r.en.HTMLRender, r.tm, themeName)
             /\ themeName = GetCurrentTheme(tm)
                  => r.en.HTMLRender = IF GetRender(tm).isNil THEN en.HTMLRender ELSE GetRender(tm)
    /\ \A outReload \in EngineLoadOutcomes(LoadDir(tm, GetCurrentTheme(tm))) :
         LET r == EngineReloadCurrentTheme(en, tm, outReload, NilRender) IN
         r.err = Nil => /\ r.en.HTMLRender = outReload
                        /\ r.en.HTMLRender = GetRender(r.tm)
                        /\ RenderOf(r.en.HTMLRender, r.tm, GetCurrentTheme(r.tm))

\* Engine.SwitchTheme has loaded another theme, returned nil, and HTMLRender
\* is that theme's render set
C20_Witness ==
  /\ EngineReady
  /\ last.op = "Engine.SwitchTheme" /\ last.type = "nil" /\ last.ran
  /\ en.currentTheme = GetCurrentTheme(tm)
  /\ en.currentTheme # tm.defaultTheme
  /\ RenderLen(en.HTMLRender) = 3
  /\ RenderOf(en.HTMLRender, tm, en.currentTheme)

(***************************************************************************)
(* Properties of the file watch                                            *)
(***************************************************************************)
\* a goroutine of Watching is waiting on the Events channel of en.watcher
\* or handling an event
LoopAlive == \E i \in DOMAIN en.loops : en.loops[i].at \in {"select", "handling"}

\* C11: with watching started, once Engine.SwitchTheme has loaded another
\* theme, re-rooted the watcher without error and returned nil, a goroutine
\* of Watching receives the events of the watcher that holds the new
\* theme's tree (so that a write under the new root can trigger a reload).
\* Violated: updateWatcher closes the watcher the goroutine waits on; the
\* goroutine is left on the closed Events channel and returns.
C11_EventLoopFollowsSwitch ==
  (/\ Alive /\ en.started /\ en.done = "open"
   /\ last.op = "Engine.SwitchTheme" /\ last.type = "nil" /\ last.ran /\ ~last.res
   /\ en.watcherOpen /\ en.watchDir = tm.themes[en.currentTheme].Path)
    => LoopAlive

\* C14: every call of Engine.Close, the first and the later ones, completes
\* without a panic and leaves the engine shut down (en.done closed, the
\* watcher closed).
\* Violated: the second call executes close(en.done) on the closed channel.
C14_CloseTwice ==
  (en.made /\ last.op = "Engine.Close")
    => ~en.panicked /\ en.done = "closed" /\ ~en.watcherOpen

(***************************************************************************)
(* The registry called from several goroutines.  DefaultThemeManager has   *)
(* no lock: a method is a sequence of reads and writes of tm.themes,       *)
(* tm.currentTheme and tm.render, and the steps of different goroutines    *)
(* interleave.  A step below is one such read or write with the local      *)
(* computation that follows it.                                            *)
(***************************************************************************)
\* the goroutines: a caller of SwitchTheme, the file-watch task calling
\* ReloadCurrentTheme, and a reader calling GetRender
Threads == {"caller", "watchTask", "reader"}

\* a goroutine outside the registry
Idle ==
  [pc |-> "idle", op |-> "none", name |-> "", previousTheme |-> "", previousRender |-> NilRender,
   err |-> "nil", obs |-> NilRender]

\* the goroutine has returned from its call with an error of that type
Returned(t, type) == [t EXCEPT !.pc = "done", !.err = type]

\* the tree the registry is discovered on: every candidate a valid theme
RaceTree == [root |-> "invalid", kids |-> [d \in Dirs |-> "valid"]]

\* the load function always succeeds: a map of non-nil templates compiled
\* from the directory
RaceLoadOutcomes(dir) == {o \in LoadOutcomes(dir) : NonEmpty(o) /\ \A t \in o.tmpls : t.ok}

\* SwitchTheme up to the call of LoadTheme: the existence check, the
\* comparison with tm.currentTheme, the snapshot
switchEnter(m, t, name) ==
  IF ~ThemeExists(m, name) THEN Returned([t EXCEPT !.op = "SwitchTheme", !.name = name], "ThemeNotFound")
  ELSE IF m.currentTheme = name THEN Returned([t EXCEPT !.op = "SwitchTheme", !.name = name], "nil")
  ELSE [t EXCEPT !.pc = "clear", !.op = "SwitchTheme", !.name = name,
                 !.previousTheme = m.currentTheme, !.previousRender = m.render]

\* ReloadCurrentTheme up to loadThemeTemplates: the read of tm.currentTheme
\* and the lookup of LoadTheme
reloadEnter(m, t) ==
  IF m.currentTheme = "" THEN Returned([t EXCEPT !.op = "ReloadCurrentTheme"], "ThemeLoadFailed")
  ELSE IF ~ThemeExists(m, m.currentTheme)
       THEN Returned([t EXCEPT !.op = "ReloadCurrentTheme", !.name = m.currentTheme], "ThemeNotFound")
  ELSE [t EXCEPT !.pc = "clear", !.op = "ReloadCurrentTheme", !.name = m.currentTheme]

\* loadThemeTemplates: tm.clearRender()
loadClear(m, t) == [tm |-> clearRender(m), t |-> [t EXCEPT !.pc = "load"]]

\* the goroutine's call fails inside LoadTheme: SwitchTheme goes on to roll
\* back, ReloadCurrentTheme returns the error
loadFailed(t) == IF t.op = "SwitchTheme" THEN [t EXCEPT !.pc = "rollback"] ELSE Returned(t, "ThemeLoadFailed")

\* loadThemeTemplates: tm.render = tm.loadFunc(theme.Path, tm.funcMap)
loadCall(m, t, out) ==
  IF ~m.loadFunc THEN [tm |-> m, t |-> loadFailed(t)]
  ELSE [tm |-> [m EXCEPT !.render = out], t |-> [t EXCEPT !.pc = "verify"]]

\* loadThemeTemplates: the checks of tm.render after the load, and the
\* return of LoadTheme
loadVerify(m, t) ==
  IF m.render.isNil \/ RenderLen(m.render) = 0 THEN loadFailed(t)
  ELSE IF t.op = "SwitchTheme" THEN [t EXCEPT !.pc = "validate"]
  ELSE Returned(t, "nil")

\* SwitchTheme: the nil check of tm.render and validateRenderTemplates
switchValidate(m, t) ==
  IF m.render.isNil \/ validateRenderTemplates(m) # Nil THEN [t EXCEPT !.pc = "rollback"]
  ELSE [t EXCEPT !.pc = "commit"]

\* SwitchTheme: tm.currentTheme = name
switchCommit(m, t) == [tm |-> [m EXCEPT !.currentTheme = t.name], t |-> Returned(t, "nil")]

\* SwitchTheme: tm.currentTheme = previousTheme; tm.render = previousRender
switchRollback(m, t) ==
  [tm |-> [m EXCEPT !.currentTheme = t.previousTheme, !.render = t.previousRender],
   t |-> Returned(t, "ThemeSwitchFailed")]

\* a render call or GetRender: the read of tm.render
readRender(m, t) == [t EXCEPT !.pc = "done", !.op = "GetRender", !.obs = GetRender(m)]

InitRace ==
  /\ tm = NewDefaultThemeManager(FALSE, TRUE)
  /\ en = NoEngine
  /\ last = NoCall
  /\ onlySwitches = FALSE
  /\ th = [i \in Threads |-> Idle]
  /\ disk = NoDisk

\* DiscoverThemes, before any goroutine is started
RaceDiscover ==
  /\ tm.themes = NoThemes
  /\ \E out \in RaceLoadOutcomes(FirstDir(RaceTree)) :
       LET r == DiscoverThemes(tm, RaceTree, out) IN
       /\ tm' = r.tm
       /\ last' = Call("DiscoverThemes", r)
  /\ UNCHANGED <<en, onlySwitches, th, disk>>

RaceSwitchEnter ==
  /\ tm.themes # NoThemes /\ th["caller"].pc = "idle"
  /\ \E name \in Dirs \cup {"ghost"} :
       th' = [th EXCEPT !["caller"] = switchEnter(tm, th["caller"], name)]
  /\ UNCHANGED <<tm, en, last, onlySwitches, disk>>

RaceReloadEnter ==
  /\ tm.themes # NoThemes /\ th["watchTask"].pc = "idle"
  /\ th' = [th EXCEPT !["watchTask"] = reloadEnter(tm, th["watchTask"])]
  /\ UNCHANGED <<tm, en, last, onlySwitches, disk>>

RaceLoadClear ==
  /\ \E i \in {"caller", "watchTask"} :
       /\ th[i].pc = "clear"
       /\ tm' = loadClear(tm, th[i]).tm
       /\ th' = [th EXCEPT ![i] = loadClear(tm, th[i]).t]
  /\ UNCHANGED <<en, last, onlySwitches, disk>>

RaceLoadCall ==
  /\ \E i \in {"caller", "watchTask"} :
       /\ th[i].pc = "load"
       /\ \E out \in RaceLoadOutcomes(LoadDir(tm, th[i].name)) :
            /\ tm' = loadCall(tm, th[i], out).tm
            /\ th' = [th EXCEPT ![i] = loadCall(tm, th[i], out).t]
  /\ UNCHANGED <<en, last, onlySwitches, disk>>

RaceLoadVerify ==
  /\ \E i \in {"caller", "watchTask"} :
       /\ th[i].pc = "verify"
       /\ th' = [th EXCEPT ![i] = loadVerify(tm, th[i])]
  /\ UNCHANGED <<tm, en, last, onlySwitches, disk>>

RaceSwitchValidate ==
  /\ th["caller"].pc = "validate"
  /\ th' = [th EXCEPT !["caller"] = switchValidate(tm, th["caller"])]
  /\ UNCHANGED <<tm, en, last, onlySwitches, disk>>

RaceSwitchCommit ==
  /\ th["caller"].pc = "commit"
  /\ tm' = switchCommit(tm, th["caller"]).tm
  /\ th' = [th EXCEPT !["caller"] = switchCommit(tm, th["caller"]).t]
  /\ UNCHANGED <<en, last, onlySwitches, disk>>

RaceSwitchRollback ==
  /\ th["caller"].pc = "rollback"
  /\ tm' = switchRollback(tm, th["caller"]).tm
  /\ th' = [th EXCEPT !["caller"] = switchRollback(tm, th["caller"]).t]
  /\ UNCHANGED <<en, last, onlySwitches, disk>>

RaceGetRender ==
  /\ tm.themes # NoThemes /\ th["reader"].pc = "idle"
  /\ th' = [th EXCEPT !["reader"] = readRender(tm, th["reader"])]
  /\ UNCHANGED <<tm, en, last, onlySwitches, disk>>

NextRace ==
  \/ RaceDiscover
  \/ RaceSwitchEnter
  \/ RaceReloadEnter
  \/ RaceLoadClear
  \/ RaceLoadCall
  \/ RaceLoadVerify
  \/ RaceSwitchValidate
  \/ RaceSwitchCommit
  \/ RaceSwitchRollback
  \/ RaceGetRender

SpecRace == InitRace /\ [][NextRace]_vars

(***************************************************************************)
(* Properties of the registry under concurrent calls                       *)
(***************************************************************************)
\* C18: a reader that calls GetRender while SwitchTheme or
\* ReloadCurrentTheme runs in another goroutine gets a complete render set,
\* the previous one or the new one (every load of this specification
\* succeeds, so both hold templates), never the empty set installed by
\* clearRender.
\* Violated: GetRender between clearRender and the assignment of the load
\* function's result returns the empty map.
C18_ReaderSeesCompleteRender ==
  th["reader"].pc = "done" => NonEmpty(th["reader"].obs)

\* C19: once the concurrent SwitchTheme and ReloadCurrentTheme have both
\* returned, the render of the registry is the set loaded from the
\* directory of the theme named by currentTheme.
\* Violated: the reload reads currentTheme before the switch commits and
\* assigns its render after the switch has loaded; the switch validates and
\* commits over the old theme's render.
C19_RegistryConsistentAfterRace ==
  (th["caller"].pc = "done" /\ th["watchTask"].pc = "done")
    => RenderOf(GetRender(tm), tm, GetCurrentTheme(tm))

(***************************************************************************)
(* Frame properties of the registry                                        *)
(***************************************************************************)
\* C29: LoadTheme(name) leaves currentTheme, defaultTheme and the themes map
\* as they were.  For an unknown name it returns ThemeNotFound and leaves
\* the render as well; for a known name whose load succeeds the render is
\* the set the load function returned for that theme's directory.
C29_LoadThemeFrame ==
  \A name \in ArgNames : \A out \in OutsFor(name) :
    LET r == LoadTheme(tm, name, out) IN
    /\ r.tm.currentTheme = tm.currentTheme
    /\ r.tm.defaultTheme = tm.defaultTheme
    /\ r.tm.themes = tm.themes
    /\ ~ThemeExists(tm, name) => r.err.Type = "ThemeNotFound" /\ r.tm.render = tm.render
    /\ (ThemeExists(tm, name) /\ r.err = Nil) => r.tm.render = out /\ RenderOf(r.tm.render, r.tm, name)

\* LoadTheme has replaced the render by that of a theme that is not the
\* current one
C29_Witness ==
  /\ last.op = "LoadTheme" /\ last.type = "nil" /\ last.ran
  /\ ThemeExists(tm, GetCurrentTheme(tm))
  /\ \E name \in GetAvailableThemes(tm) \ {GetCurrentTheme(tm)} : RenderOf(GetRender(tm), tm, name)

\* C30: PreloadTheme(name), successful or not, leaves the current theme, the
\* themes map and the render (the same map with the same templates) as they
\* were.
C30_PreloadThemeFrame ==
  \A name \in ArgNames : \A out \in OutsFor(name) :
    LET r == PreloadTheme(tm, name, out) IN
    /\ r.tm.currentTheme = tm.currentTheme
    /\ r.tm.themes = tm.themes
    /\ r.tm.render = tm.render
    /\ RenderLen(r.tm.render) = RenderLen(tm.render)

\* PreloadTheme has loaded a theme successfully while the registry holds
\* the render of its current theme, one of several themes
C30_Witness ==
  /\ last.op = "PreloadTheme" /\ last.type = "nil" /\ last.ran
  /\ Cardinality(GetAvailableThemes(tm)) >= 2
  /\ ThemeExists(tm, GetCurrentTheme(tm))
  /\ RenderOf(GetRender(tm), tm, GetCurrentTheme(tm))

(***************************************************************************)
(* Discovery on its own: DiscoverThemes called again and again on changing *)
(* trees, with SetDefaultTheme in between                                  *)
(***************************************************************************)
NextDiscovery ==
  \/ DoDiscoverThemes
  \/ DoSetDefaultTheme

SpecDiscovery == Init /\ [][NextDiscovery]_vars

(***************************************************************************)
(* Properties of discovery: modes, the legacy theme, the first theme       *)
(***************************************************************************)
\* the layouts the root can show for a tree: a root that passes ValidateTheme
\* has the four directories, any other root may or may not have them
LegacyLooks(f) == IF ValidateThemeOK(f.root) THEN {TRUE} ELSE BOOLEAN

\* the first entry of the root, in the order of ReadDir, that passes ValidateTheme
FirstValid(f) ==
  ReadDir(f)[CHOOSE i \in 1..Len(ReadDir(f)) :
               /\ ValidateThemeOK(f.kids[ReadDir(f)[i]])
               /\ \A j \in 1..(i - 1) : ~ValidateThemeOK(f.kids[ReadDir(f)[j]])]

\* the names flagged IsDefault in the registry
FlaggedDefault(m) == {n \in DOMAIN m.themes : m.themes[n].IsDefault}

\* C22: when DiscoverThemes classifies the root as Legacy and returns no error,
\* the registry holds exactly the theme "default", whose path is the root,
\* which is the current and the default theme, and the render is the set
\* loaded from the root.
C22_LegacyDiscovery ==
  \A f \in Trees : \A out \in LoadOutcomes(FirstDir(f)) :
    LET r == DiscoverThemes(tm, f, out) IN
    (f.root # "missing" /\ DetectMode(f) = "ModeLegacy" /\ r.err = Nil) =>
      /\ DOMAIN r.tm.themes = {"default"}
      /\ r.tm.themes["default"].Name = "default"
      /\ r.tm.themes["default"].Path = TemplatesDir
      /\ r.tm.themes["default"].IsDefault
      /\ r.tm.currentTheme = "default"
      /\ r.tm.defaultTheme = "default"
      /\ r.tm.render = out
      /\ RenderOf(r.tm.render, r.tm, "default")

\* a legacy discovery has just succeeded
C22_Witness ==
  /\ last.op = "DiscoverThemes" /\ last.type = "nil" /\ last.ran
  /\ DOMAIN tm.themes = {"default"}
  /\ tm.themes["default"].Path = TemplatesDir
  /\ RenderOf(GetRender(tm), tm, "default")

\* C24: DetectMode returns MultiTheme exactly when some child directory of the
\* root passes ValidateTheme, whatever layout the root itself shows, and
\* Legacy otherwise; the mode depends on the tree only, and a successful
\* DiscoverThemes registers the themes of that mode.
C24_DetectModeBySubdirectories ==
  \A f \in Trees : \A legacy \in LegacyLooks(f) :
    /\ detectModeFileSystem(legacy, hasThemeSubdirectories(f)) = "ModeMultiTheme" <=> Survivors(f) # {}
    /\ detectModeFileSystem(legacy, hasThemeSubdirectories(f)) = "ModeLegacy" <=> Survivors(f) = {}
    /\ DetectMode(f) = detectModeFileSystem(legacy, hasThemeSubdirectories(f))
    /\ \A out \in LoadOutcomes(FirstDir(f)) :
         (f.root # "missing" /\ DiscoverThemes(tm, f, out).err = Nil) =>
           DOMAIN DiscoverThemes(tm, f, out).tm.themes = (IF Survivors(f) # {} THEN Survivors(f) ELSE {"default"})

\* a discovery went the multi-theme way and registered themes below the root
C24_Witness ==
  /\ last.op = "DiscoverThemes" /\ last.type = "nil"
  /\ \E n \in DOMAIN tm.themes : tm.themes[n].Path = Join(TemplatesDir, n)

C23_CurrentThemeResolves ==
  \A f \in Trees : \A out \in LoadOutcomes(FirstDir(f)) :
    LET r == DiscoverThemes(tm, f, out) IN
    (onlySwitches /\ ThemeExists(tm, GetCurrentTheme(tm))) =>
      ThemeExists(r.tm, GetCurrentTheme(r.tm))

\* the names on whose directory ValidateTheme succeeds during a DiscoverThemes
\* on tree f: the root, registered as "default", in legacy mode, and the
\* children that pass in multi-theme mode
Validated(f) ==
  IF DetectMode(f) = "ModeLegacy"
  THEN IF ValidateThemeOK(f.root) THEN {"default"} ELSE {}
  ELSE Survivors(f)

\* no operation of the registry other than DiscoverThemes changes the keys of themes
KeysFrame ==
  /\ \A name \in ArgNames : \A out \in OutsFor(name) :
       /\ DOMAIN LoadTheme(tm, name, out).tm.themes = DOMAIN tm.themes
       /\ DOMAIN SwitchTheme(tm, name, out).tm.themes = DOMAIN tm.themes
       /\ DOMAIN PreloadTheme(tm, name, out).tm.themes = DOMAIN tm.themes
       /\ DOMAIN SetDefaultTheme(tm, name).tm.themes = DOMAIN tm.themes
  /\ \A out \in OutsFor(tm.currentTheme) :
       DOMAIN ReloadCurrentTheme(tm, out).tm.themes = DOMAIN tm.themes

C21_InitFallsBackToDefaultTheme ==
  (/\ en.made /\ en.inited /\ last.op = "Engine.Init"
   /\ en.themeManager
   /\ en.optsTheme # "" /\ ~ThemeExists(tm, en.optsTheme)
   /\ ThemeExists(tm, en.optsDefaultTheme)) =>
     /\ en.currentTheme = en.optsDefaultTheme
     /\ GetCurrentTheme(tm) = en.optsDefaultTheme
     /\ RenderOf(en.HTMLRender, tm, en.optsDefaultTheme)

(***************************************************************************)
(* Theme validation (ThemeDiscovery.ValidateTheme)                         *)
(*                                                                         *)
(* A theme directory is a record: its path, the four required              *)
(* sub-directories and the state of theme.json.  A sub-directory either    *)
(* does not exist or holds a set of files; a file is the sequence of names *)
(* from the sub-directory down to the file.                                *)
(***************************************************************************)
\* filepath.Base of a clean, non-empty path
Base(path) ==
  LET slashes == {i \in 1..Len(path) : SubSeq(path, i, i) = "/"} IN
  IF slashes = {} THEN path
  ELSE SubSeq(path, (CHOOSE i \in slashes : \A j \in slashes : j <= i) + 1, Len(path))

AbsentDir == [exists |-> FALSE, files |-> {}]

Dir(files) == [exists |-> TRUE, files |-> files]

\* the name of a file
FileName(file) == file[Len(file)]

\* the entries of the directory at `at` that are files (os.ReadDir, !entry.IsDir())
FilesIn(files, at) == {file \in files : Len(file) = Len(at) + 1 /\ SubSeq(file, 1, Len(at)) = at}

\* the entries of the directory at `at` that are directories (entry.IsDir())
SubDirsIn(files, at) ==
  {SubSeq(file, 1, Len(at) + 1) : file \in {g \in files : Len(g) > Len(at) + 1 /\ SubSeq(g, 1, Len(at)) = at}}

\* a nil error of ValidateTheme
NoValidationError == [Type |-> "nil", Theme |-> "", Message |-> "", Cause |-> "nil"]

\* &ThemeError{Type, Theme, Message, Cause} as ValidateTheme builds it
ValidationError(type, theme, message, cause) ==
  [Type |-> type, Theme |-> theme, Message |-> message, Cause |-> cause.Type]

\* ThemeDiscovery.isTemplateFile
ThemeDiscovery_isTemplateFile(filename) == Ext(filename) \in {".tmpl", ".html", ".gohtml", ".tpl"}

RequiredDirs == <<"layouts", "pages", "singles", "errors">>

\* ThemeDiscovery.validateThemeStructure
validateThemeStructure(t) ==
  IF \E i \in 1..Len(RequiredDirs) : ~t[RequiredDirs[i]].exists THEN PlainError ELSE Nil

\* ThemeDiscovery.validateDirectoryHasTemplates on the directory at `at` of d
validateDirectoryHasTemplates(d, at) ==
  IF ~d.exists THEN PlainError
  ELSE IF \E file \in FilesIn(d.files, at) : ThemeDiscovery_isTemplateFile(FileName(file)) THEN Nil
  ELSE IF \E sub \in SubDirsIn(d.files, at) :
            \E file \in FilesIn(d.files, sub) : ThemeDiscovery_isTemplateFile(FileName(file))
       THEN Nil
  ELSE PlainError

\* validatePagesDirectory that looks at the files of pages/ itself only
validatePagesDirectory_DirectOnly(d) ==
  IF ~d.exists THEN PlainError
  ELSE IF \E file \in FilesIn(d.files, << >>) : ThemeDiscovery_isTemplateFile(FileName(file)) THEN Nil
  ELSE PlainError

\* ThemeDiscovery.validatePagesDirectory
validatePagesDirectory(d) ==
  IF ~d.exists THEN PlainError
  ELSE IF \E file \in FilesIn(d.files, << >>) : ThemeDiscovery_isTemplateFile(FileName(file)) THEN Nil
  ELSE IF \E sub \in SubDirsIn(d.files, << >>) : validateDirectoryHasTemplates(d, sub) = Nil THEN Nil
  ELSE PlainError

\* ThemeDiscovery.validateRequiredTemplates
validateRequiredTemplates(t) ==
  IF validateDirectoryHasTemplates(t.layouts, << >>) # Nil THEN PlainError
  ELSE IF validatePagesDirectory(t.pages) # Nil THEN PlainError
  ELSE IF validateDirectoryHasTemplates(t.singles, << >>) # Nil THEN PlainError
  ELSE IF validateDirectoryHasTemplates(t.errors, << >>) # Nil THEN PlainError
  ELSE Nil

\* theme.json: "none" (no file), "ok", "malformed" (not JSON, or a name,
\* version or tags of the wrong type), "badmeta" (passes validateThemeConfig,
\* does not unmarshal into ThemeMetadata)
ConfigStatus == {"none", "ok", "malformed", "badmeta"}

\* ThemeDiscovery.validateThemeConfig
validateThemeConfig(t) == IF t.config = "malformed" THEN PlainError ELSE Nil

\* ValidateTheme that looks at theme.json before the directories
ValidateTheme_ConfigFirst(t) ==
  IF validateThemeConfig(t) # Nil
  THEN ValidationError("ThemeConfigInvalid", Base(t.path), "invalid theme configuration", validateThemeConfig(t))
  ELSE IF validateThemeStructure(t) # Nil
  THEN ValidationError("ThemeInvalid", Base(t.path), "invalid theme structure", validateThemeStructure(t))
  ELSE IF validateRequiredTemplates(t) # Nil
  THEN ValidationError("ThemeInvalid", Base(t.path), "missing required templates", validateRequiredTemplates(t))
  ELSE NoValidationError

\* ThemeDiscovery.ValidateTheme
ValidateTheme(t) ==
  IF validateThemeStructure(t) # Nil
  THEN ValidationError("ThemeInvalid", Base(t.path), "invalid theme structure", validateThemeStructure(t))
  ELSE IF validateRequiredTemplates(t) # Nil
  THEN ValidationError("ThemeInvalid", Base(t.path), "missing required templates", validateRequiredTemplates(t))
  ELSE IF validateThemeConfig(t) # Nil
  THEN ValidationError("ThemeConfigInvalid", Base(t.path), "invalid theme configuration", validateThemeConfig(t))
  ELSE NoValidationError

\* ThemeDiscovery.LoadThemeMetadata, its error
LoadThemeMetadata(t) ==
  IF t.config \in {"malformed", "badmeta"}
  THEN ValidationError("ThemeConfigInvalid", Base(t.path), "invalid theme.json format", PlainError)
  ELSE NoValidationError

\* the files pages/ is tried with: template and other files in pages/ itself
\* and one, two and three directories below it
PageFiles ==
  {<<"index.tmpl">>, <<"readme.md">>, <<"user", "list.html">>,
   <<"user", "admin", "edit.gohtml">>, <<"user", "admin", "log", "old.tpl">>}

PagesContents == {AbsentDir} \cup {Dir(files) : files \in SUBSET PageFiles}

\* what layouts/, singles/ and errors/ are tried with
OtherContents == {AbsentDir, Dir({}), Dir({<<"base.tmpl">>}), Dir({<<"split", "part.html">>, <<"notes.md">>})}

\* the paths ValidateTheme is given: the legacy root and theme directories
ThemePaths == {TemplatesDir} \cup {Join(TemplatesDir, DirNames[i]) : i \in 1..Len(DirNames)}

ThemeDirs ==
  [path : ThemePaths, layouts : OtherContents, pages : PagesContents,
   singles : OtherContents, errors : OtherContents, config : ConfigStatus]

InitValidate ==
  /\ tm = NewDefaultThemeManager(FALSE, TRUE)
  /\ en = NoEngine
  /\ last = NoCall
  /\ onlySwitches = FALSE
  /\ th = NoThreads
  /\ disk \in ThemeDirs

DoValidateTheme ==
  /\ last' = [NoCall EXCEPT !.op = "ValidateTheme",
                            !.type = ValidateTheme(disk).Type,
                            !.cause = ValidateTheme(disk).Cause]
  /\ UNCHANGED <<tm, en, onlySwitches, th, disk>>

DoLoadThemeMetadata ==
  /\ last' = [NoCall EXCEPT !.op = "LoadThemeMetadata",
                            !.type = LoadThemeMetadata(disk).Type,
                            !.cause = LoadThemeMetadata(disk).Cause]
  /\ UNCHANGED <<tm, en, onlySwitches, th, disk>>

NextValidate ==
  \/ DoValidateTheme
  \/ DoLoadThemeMetadata

SpecValidate == InitValidate /\ [][NextValidate]_vars

(***************************************************************************)
(* Properties of theme validation                                          *)
(***************************************************************************)
\* a required sub-directory of t does not exist
MissingRequiredDir(t) == \E i \in 1..Len(RequiredDirs) : ~t[RequiredDirs[i]].exists

\* the template files of directory d, at any depth
TemplateFiles(d) == {file \in d.files : Ext(FileName(file)) \in {".tmpl", ".html", ".gohtml", ".tpl"}}

\* a required sub-directory of t holds no template file at all
LacksTemplates(t) == \E i \in 1..Len(RequiredDirs) : TemplateFiles(t[RequiredDirs[i]]) = {}

\* C25: ValidateTheme checks structure, then content, then metadata and
\* reports the first failure only: a theme directory with a required
\* sub-directory missing, or with a required sub-directory holding no template
\* file, gives ThemeInvalid with Theme = the base name of the directory and a
\* non-empty message, also when theme.json is malformed; a missing
\* sub-directory is reported before missing templates; ThemeConfigInvalid is
\* returned only when every required sub-directory exists and holds a
\* template file.
C25_FirstFailureOnly ==
  last.op = "ValidateTheme" =>
    /\ (MissingRequiredDir(disk) \/ LacksTemplates(disk)) =>
          /\ ValidateTheme(disk).Type = "ThemeInvalid"
          /\ last.type = "ThemeInvalid"
          /\ ValidateTheme(disk).Theme = Base(disk.path)
          /\ ValidateTheme(disk).Theme \in {TemplatesDir} \cup Dirs
          /\ ValidateTheme(disk).Message # ""
    /\ MissingRequiredDir(disk) => ValidateTheme(disk).Message = "invalid theme structure"
    /\ ValidateTheme(disk).Type = "ThemeConfigInvalid" =>
          /\ ~MissingRequiredDir(disk) /\ ~LacksTemplates(disk)
          /\ validateThemeStructure(disk) = Nil /\ validateRequiredTemplates(disk) = Nil
          /\ disk.config = "malformed"
    /\ ValidateTheme(disk).Type \in {"nil", "ThemeInvalid", "ThemeConfigInvalid"}

\* a directory without singles/ and with a malformed theme.json was reported ThemeInvalid
C25_Witness ==
  /\ last.op = "ValidateTheme" /\ last.type = "ThemeInvalid"
  /\ ~disk.singles.exists
  /\ disk.layouts.exists /\ disk.pages.exists /\ disk.errors.exists
  /\ disk.config = "malformed"
  /\ Base(disk.path) \in Dirs

\* C28 as stated: the check of pages/ succeeds exactly when a template file
\* lies in pages/ itself or in a sub-directory of pages/, and a theme whose
\* pages/ holds template files only deeper than that is ThemeInvalid.
C28_PagesAtMostOneLevel ==
  (last.op = "ValidateTheme" /\ disk.pages.exists) =>
    /\ validatePagesDirectory(disk.pages) = Nil <=> \E file \in TemplateFiles(disk.pages) : Len(file) <= 2
    /\ (\A file \in TemplateFiles(disk.pages) : Len(file) > 2) => last.type = "ThemeInvalid"

\* C28 (amended): the check of pages/ succeeds exactly when a template file
\* lies in pages/ itself, in a sub-directory of pages/ or in a sub-directory
\* of such a sub-directory; a theme whose pages/ holds template files only
\* three or more levels deep is ThemeInvalid.
C28_PagesAtMostTwoLevels ==
  (last.op = "ValidateTheme" /\ disk.pages.exists) =>
    /\ validatePagesDirectory(disk.pages) = Nil <=> \E file \in TemplateFiles(disk.pages) : Len(file) <= 3
    /\ (\A file \in TemplateFiles(disk.pages) : Len(file) > 3) =>
          /\ last.type = "ThemeInvalid"
          /\ ValidateTheme(disk).Theme = Base(disk.path)

\* a theme whose only page template lies two directories below pages/ was accepted
C28_Witness ==
  /\ last.op = "ValidateTheme" /\ last.type = "nil"
  /\ TemplateFiles(disk.pages) # {}
  /\ \A file \in TemplateFiles(disk.pages) : Len(file) = 3

(***************************************************************************)
(* The default theme: DiscoverThemes, SetDefaultTheme and SwitchTheme      *)
(***************************************************************************)
NextDefaults ==
  \/ DoDiscoverThemes
  \/ DoSetDefaultTheme
  \/ DoSwitchTheme

SpecDefaults == Init /\ [][NextDefaults]_vars

\* exactly one registered theme is flagged IsDefault and GetDefaultTheme() names it
OneDefault(m) ==
  /\ ThemeExists(m, GetDefaultTheme(m))
  /\ FlaggedDefault(m) = {GetDefaultTheme(m)}

\* C39: a successful DiscoverThemes leaves exactly one registered theme
\* flagged IsDefault, the one GetDefaultTheme() names; SetDefaultTheme and
\* SwitchTheme keep it so; SetDefaultTheme with an unknown name returns
\* ThemeNotFound and changes nothing; SwitchTheme changes neither a flag nor
\* the name of the default theme.
C39_ExactlyOneDefault ==
  /\ \A f \in Trees : \A out \in LoadOutcomes(FirstDir(f)) :
       DiscoverThemes(tm, f, out).err = Nil => OneDefault(DiscoverThemes(tm, f, out).tm)
  /\ \A name \in ArgNames :
       /\ OneDefault(tm) => OneDefault(SetDefaultTheme(tm, name).tm)
       /\ ThemeExists(tm, name) =>
            /\ SetDefaultTheme(tm, name).err = Nil
            /\ GetDefaultTheme(SetDefaultTheme(tm, name).tm) = name
       /\ ~ThemeExists(tm, name) =>
            /\ SetDefaultTheme(tm, name).err.Type = "ThemeNotFound"
            /\ SetDefaultTheme(tm, name).tm = tm
       /\ \A out \in OutsFor(name) :
            /\ SwitchTheme(tm, name, out).tm.themes = tm.themes
            /\ GetDefaultTheme(SwitchTheme(tm, name, out).tm) = GetDefaultTheme(tm)
  /\ onlySwitches => OneDefault(tm)

\* the default was moved away from the first theme and a switch then succeeded
C39_Witness ==
  /\ last.op = "SwitchTheme" /\ last.type = "nil" /\ last.ran
  /\ ThemeExists(tm, DirNames[1])
  /\ GetDefaultTheme(tm) = DirNames[2]
  /\ GetCurrentTheme(tm) = DirNames[1]
  /\ OneDefault(tm)

(***************************************************************************)
(* Properties of the registry after a successful discovery                 *)
(***************************************************************************)
\* the render is the set loaded from the directory of the current theme
RenderIsCurrent(m) ==
  /\ ThemeExists(m, GetCurrentTheme(m))
  /\ RenderOf(GetRender(m), m, GetCurrentTheme(m))

\* C35: a successful DiscoverThemes leaves the render loaded from the current
\* theme, and every public operation of the registry that returns success
\* keeps it so.
C35_RenderIsCurrentThemes ==
  /\ onlySwitches => RenderIsCurrent(tm)
  /\ RenderIsCurrent(tm) =>
       /\ \A name \in ArgNames : \A out \in OutsFor(name) :
            /\ LoadTheme(tm, name, out).err = Nil => RenderIsCurrent(LoadTheme(tm, name, out).tm)
            /\ SwitchTheme(tm, name, out).err = Nil => RenderIsCurrent(SwitchTheme(tm, name, out).tm)
            /\ PreloadTheme(tm, name, out).err = Nil => RenderIsCurrent(PreloadTheme(tm, name, out).tm)
            /\ SetDefaultTheme(tm, name).err = Nil => RenderIsCurrent(SetDefaultTheme(tm, name).tm)
       /\ \A out \in OutsFor(GetCurrentTheme(tm)) :
            ReloadCurrentTheme(tm, out).err = Nil => RenderIsCurrent(ReloadCurrentTheme(tm, out).tm)
       /\ \A out \in OutsFor(GetDefaultTheme(tm)) :
            SwitchToDefaultTheme(tm, out).err = Nil => RenderIsCurrent(SwitchToDefaultTheme(tm, out).tm)

\* C40: on a registry that holds a successful discovery, a DiscoverThemes
\* that returns an error leaves themes, current theme, default theme and
\* render as they were.
C40_FailedDiscoveryChangesNothing ==
  \A f \in Trees : \A out \in LoadOutcomes(FirstDir(f)) :
    (onlySwitches /\ DiscoverThemes(tm, f, out).err # Nil) =>
      /\ DiscoverThemes(tm, f, out).tm.themes = tm.themes
      /\ GetCurrentTheme(DiscoverThemes(tm, f, out).tm) = GetCurrentTheme(tm)
      /\ GetDefaultTheme(DiscoverThemes(tm, f, out).tm) = GetDefaultTheme(tm)
      /\ GetRender(DiscoverThemes(tm, f, out).tm) = GetRender(tm)

(***************************************************************************)
(* Properties of file-event handling                                       *)
(***************************************************************************)
\* an initialised engine that has a watcher
EngineWatches == en.made /\ en.inited /\ en.watcher

\* C31: handling a Chmod event reloads nothing and changes neither
\* Engine.HTMLRender nor the registry's render, whatever its path; an event
\* makes the engine reload only if it is a create, write or remove event on a
\* file with a template extension that lies under the active theme's root.
C31_OnlyTemplateEventsReload ==
  EngineWatches =>
    \A op \in EventOps, filePath \in FilePaths :
      \A out \in EventOuts(en, tm, op) : \A present \in EventPresent(en, tm, op, out) :
        \A outReload \in EventReloadOuts(en, tm, op, filePath, out, present) :
          \A outLegacy \in EventLegacyOuts(en, tm, op, filePath, out, present, outReload) :
            LET Handled(r) ==
                  /\ op = "Chmod" =>
                        /\ ~r.res
                        /\ r.en.HTMLRender = en.HTMLRender
                        /\ GetRender(r.tm) = GetRender(tm)
                  /\ r.res =>
                        /\ op \in {"Create", "Write", "Remove"}
                        /\ isTemplateFile(filePath)
                        /\ ActiveThemeKnown => Under(filePath, ActiveRoot)
            IN Handled(handleFileEvent(en, tm, op, filePath, out, present, outReload, outLegacy))

(* The engine reloading: Init, Engine.ReloadCurrentTheme and the events *)
NextReload ==
  \/ DoNewEngine
  \/ DoEngineInit
  \/ DoEngineReloadCurrentTheme
  \/ DoHandleFileEvent

SpecReload == InitEngine /\ [][NextReload]_vars

\* C32 as stated: handling an event that triggers a reload leaves
\* Engine.HTMLRender, the registry's render and the current theme as a call
\* of Engine.ReloadCurrentTheme from the same state with the same loader
\* outcome does, also when the loader fails.
C32_EventReloadIsDirectReload ==
  EngineWatches =>
    \A op \in EventOps, filePath \in FilePaths :
      \A out \in EventOuts(en, tm, op) : \A present \in EventPresent(en, tm, op, out) :
        \A outReload \in EventReloadOuts(en, tm, op, filePath, out, present) :
          \A outLegacy \in EventLegacyOuts(en, tm, op, filePath, out, present, outReload) :
            LET Same(r, d) ==
                  r.res =>
                    /\ r.en.HTMLRender = d.en.HTMLRender
                    /\ GetRender(r.tm) = GetRender(d.tm)
                    /\ GetCurrentTheme(r.tm) = GetCurrentTheme(d.tm)
                    /\ r.en.currentTheme = d.en.currentTheme
            IN Same(handleFileEvent(en, tm, op, filePath, out, present, outReload, outLegacy),
                    EngineReloadCurrentTheme(en, tm, outReload, outLegacy))

\* C32 as amended: a reload triggered by an event leaves the registry's
\* render, the registry's current theme and the engine's current theme as
\* Engine.ReloadCurrentTheme does from the same state with the same loader
\* outcome; Engine.HTMLRender is the same too when that call succeeds, and
\* when it fails the event path replaces Engine.HTMLRender by the result of
\* the legacy loadTemplate while the direct call leaves it as it was.
C32_EventReloadFallsBack ==
  EngineWatches =>
    \A op \in EventOps, filePath \in FilePaths :
      \A out \in EventOuts(en, tm, op) : \A present \in EventPresent(en, tm, op, out) :
        \A outReload \in EventReloadOuts(en, tm, op, filePath, out, present) :
          \A outLegacy \in EventLegacyOuts(en, tm, op, filePath, out, present, outReload) :
            LET Same(r, d) ==
                  r.res =>
                    /\ GetRender(r.tm) = GetRender(d.tm)
                    /\ GetCurrentTheme(r.tm) = GetCurrentTheme(d.tm)
                    /\ r.en.currentTheme = d.en.currentTheme
                    /\ d.err = Nil => r.en.HTMLRender = d.en.HTMLRender
                    /\ d.err # Nil =>
                          /\ r.en.HTMLRender = loadTemplate(en, outLegacy)
                          /\ d.en.HTMLRender = en.HTMLRender
            IN Same(handleFileEvent(en, tm, op, filePath, out, present, outReload, outLegacy),
                    EngineReloadCurrentTheme(en, tm, outReload, outLegacy))

C32_Witness ==
  /\ last.op = "handleFileEvent" /\ last.res
  /\ en.themeManager
  /\ en.HTMLRender = [isNil |-> FALSE, tmpls |-> {Tmpl(PageKey, TemplatesDir, TRUE)}]
  /\ en.HTMLRender # GetRender(tm)

(* Properties relating the engine's fields to the registry's *)
\* C36: whenever the engine has a theme manager, Engine.HTMLRender is the
\* render set the theme manager's GetRender() returns, after any sequence of
\* Init, SwitchTheme, ReloadCurrentTheme and file-event handling.
C36_EngineRenderIsRegistryRender ==
  (en.made /\ en.inited /\ en.themeManager) => en.HTMLRender = GetRender(tm)

\* C37: whenever the engine has a theme manager, the engine's currentTheme
\* equals the theme manager's GetCurrentTheme(), after Init and after any
\* sequence of successful or failed Engine.SwitchTheme calls.
C37_EngineThemeIsRegistryTheme ==
  (en.made /\ en.inited /\ en.themeManager) => en.currentTheme = GetCurrentTheme(tm)

\* C38: handling a create, write or remove event on a file whose extension
\* is not a template extension, and calling getWatchDirectory or
\* isFileInCurrentTheme, leave the registry's render, current theme and
\* themes as they were and do not invoke the load function.
C38_QueriesLeaveRegistry ==
  EngineWatches =>
    \A op \in {"Create", "Write", "Remove"}, filePath \in FilePaths :
      \A out \in EventOuts(en, tm, op) : \A present \in EventPresent(en, tm, op, out) :
        LET Frame(m) ==
              /\ GetRender(m) = GetRender(tm)
              /\ GetCurrentTheme(m) = GetCurrentTheme(tm)
              /\ m.themes = tm.themes
            NotLoaded == ~(en.themeManager /\ en.currentTheme # "" /\ LoadTheme(tm, en.currentTheme, out).ran)
            Handled(r) == ~isTemplateFile(filePath) => (~r.res /\ Frame(r.tm))
            Queried(g, i) == Frame(g.tm) /\ Frame(i.tm)
        IN /\ Handled(handleFileEvent(en, tm, op, filePath, out, present, NilRender, NilRender))
           /\ Queried(getWatchDirectory(en, tm, out, present),
                      isFileInCurrentTheme(en, tm, filePath, out, present))
           /\ NotLoaded

(***************************************************************************)
(* The goroutines of Watching and the shutdown: Watching, RestartWatching, *)
(* the steps of the goroutines, and Engine.Close in its two steps,         *)
(* close(en.done) and en.watcher.Close().  The select of a goroutine takes *)
(* any of its ready cases; a goroutine that can step does, and one whose   *)
(* select is ready again and again for the return takes it.                *)
(***************************************************************************)
\* number of goroutines RestartWatching may add
MaxRestarts == 1

\* the caller of Engine.Close has closed en.done and not yet the watcher;
\* the calls of the engine come from one caller
InClose == <<"watcher.Close">>

DoRestartWatching ==
  /\ Alive /\ en.inited /\ Len(en.loops) < MaxLoops + MaxRestarts
  /\ th = NoThreads
  /\ \E out \in WatchOuts(tm, en.currentTheme), present \in {"all", "base"}, w \in WatcherOutcomes :
       LET r == RestartWatching(en, tm, out, present, w) IN
       /\ en' = r.en
       /\ tm' = r.tm
       /\ last' = [NoCall EXCEPT !.op = "Engine.RestartWatching", !.type = r.err.Type]
  /\ UNCHANGED onlySwitches
  /\ UNCHANGED <<th, disk>>

CloseDone ==
  /\ Alive /\ th = NoThreads
  /\ en' = closeDone(en)
  /\ th' = IF closeDone(en).panicked THEN NoThreads ELSE InClose
  /\ last' = [NoCall EXCEPT !.op = "close(en.done)", !.type = IF closeDone(en).panicked THEN "panic" ELSE "nil"]
  /\ UNCHANGED <<tm, onlySwitches, disk>>

CloseWatcher ==
  /\ Alive /\ th = InClose
  /\ en' = closeWatcher(en)
  /\ th' = NoThreads
  /\ last' = [NoCall EXCEPT !.op = "Engine.Close"]
  /\ UNCHANGED <<tm, onlySwitches, disk>>

NextLoops ==
  \/ WatchEngineInit
  \/ DoWatching
  \/ DoRestartWatching
  \/ LoopReceive
  \/ LoopHandle
  \/ LoopReturn
  \/ CloseDone
  \/ CloseWatcher

SpecLoops ==
  /\ InitWatching
  /\ [][NextLoops]_vars
  /\ WF_vars(LoopHandle)
  /\ SF_vars(LoopReturn)
  /\ WF_vars(CloseWatcher)

(* Properties of the goroutines of Watching *)
\* the goroutines of Watching that wait on the Events channel of en.watcher
\* or handle an event
Draining == {i \in DOMAIN en.loops : en.loops[i].at \in {"select", "handling"}}

\* C33: at any time at most one goroutine of Watching drains the events of
\* the engine, after any sequence of Watching, RestartWatching, SwitchTheme
\* and Close calls.
C33_AtMostOneEventLoop == Alive => Cardinality(Draining) <= 1

\* C34: once Close has signalled en.done, no goroutine of Watching takes a
\* further event: it returns at its select (render calls share no lock or
\* channel with the goroutines, so none waits on one).
C34_ShutdownStopsEventLoop ==
  [][en.done = "closed" =>
       \A i \in DOMAIN en.loops : ~(en.loops[i].at = "select" /\ en'.loops[i].at = "handling")]_vars
====
